---- MODULE Spec2Model ----
(***************************************************************************)
(* A model of the session registry (src/src/services/sessionStorage.ts)    *)
(* and of the checkpoint timeline controller                                *)
(* (src/src/components/TimelineNavigator.tsx).                              *)
(***************************************************************************)
EXTENDS Integers, Sequences, FiniteSets, TLC

VARIABLES
    store,      \* the string kept by localStorage under SESSION_STORAGE_KEY
    now,        \* the value Date.now() returns
    op,         \* the registry call made last, with its arguments and the store before it
    ret,        \* what that call returned
    race,       \* the registry calls of concurrent clients between getItem and setItem
    props,      \* TimelineNavigator's props: sessionId, currentMessageIndex, messages
    ui,         \* TimelineNavigator's React state (the useState values)
    loads,      \* the loadCheckpoints invocations in flight
    pend,       \* the other asynchronous handlers in flight
    timers,     \* the pending setTimeout timers
    time,       \* milliseconds since the component was mounted
    api,        \* what the checkpoint API may answer
    h           \* history: the handler run last, the load completed last, calls made

regVars == <<store, now, op, ret, race>>

tlVars == <<props, ui, loads, pend, timers, time, api, h>>

vars == <<store, now, op, ret, race, props, ui, loads, pend, timers, time, api, h>>

(***************************************************************************)
(* Session registry: values                                                *)
(***************************************************************************)

\* Bound: the clock runs over MaxDays expiry periods.
MaxDays == 1

SESSION_EXPIRY_MS == 24 * 60 * 60 * 1000

\* The instants the clock takes: the start of each expiry period and one
\* millisecond later, so that ages just below, at and just above the expiry
\* all occur.
Instants == {d * SESSION_EXPIRY_MS + e : d \in 0..MaxDays, e \in {0, 1}}

\* How far Date.now() may move between two reads inside one call.
Drift == {0, 1}

Ids == {"s1", "s2"}

Paths == {"/p", "/q"}

\* Elements of a messages array (any[]): a JSON-safe message, undefined (which
\* JSON.stringify writes as null), the null read back, and an element that
\* refers to itself (on which JSON.stringify throws).
UNDEFINED == "<undefined>"

JSONNULL == "<null>"

CYCLIC == "<cyclic>"

MessageInputs == {<<"m1">>, <<"m1", UNDEFINED>>, <<CYCLIC>>}

\* A property slot of the sessions object: no such key, a null value, or a
\* StoredSession.
NoEntry ==
    [kind |-> "missing", sessionId |-> "", projectPath |-> "",
     messages |-> <<>>, timestamp |-> 0]

NullEntry ==
    [kind |-> "null", sessionId |-> "", projectPath |-> "",
     messages |-> <<>>, timestamp |-> 0]

StoredSession(id, projectPath, messages, timestamp) ==
    [kind |-> "session", sessionId |-> id, projectPath |-> projectPath,
     messages |-> messages, timestamp |-> timestamp]

EmptyMap == [i \in Ids |-> NoEntry]

\* In-memory values JSON.parse can give: an object or a primitive number.
Object(m) == [kind |-> "object", map |-> m]

EmptyObject == Object(EmptyMap)

NumberValue == [kind |-> "number", map |-> EmptyMap]

\* What localStorage.getItem finds: nothing, text that is not JSON, or the JSON
\* text of a value.
AbsentBlob == [kind |-> "absent", value |-> EmptyObject]

CorruptBlob == [kind |-> "corrupt", value |-> EmptyObject]

JsonBlob(v) == [kind |-> "json", value |-> v]

HasKey(v, id) == v.kind = "object" /\ v.map[id].kind # "missing"

\* The sessions object a reader of the raw store decodes, with no pruning.
RawRead(blob) == IF blob.kind = "json" THEN blob.value ELSE EmptyObject

(***************************************************************************)
(* JSON                                                                    *)
(***************************************************************************)

\* JSON.stringify of one array element: undefined becomes null.
StringifyElement(e) == IF e = UNDEFINED THEN JSONNULL ELSE e

StringifyMessages(ms) == [i \in 1..Len(ms) |-> StringifyElement(ms[i])]

HasCycle(ms) == \E i \in 1..Len(ms) : ms[i] = CYCLIC

\* JSON.stringify(sessions): throws on a cyclic value, else the text.
JSONstringify(v) ==
    IF v.kind = "object" /\ \E id \in Ids : HasCycle(v.map[id].messages)
    THEN [threw |-> TRUE, text |-> CorruptBlob]
    ELSE [threw |-> FALSE,
          text |-> JsonBlob([kind |-> v.kind,
                             map |-> [id \in Ids |->
                                 [v.map[id] EXCEPT
                                     !.messages = StringifyMessages(@)]]])]

\* JSON.parse(stored): throws on text that is not JSON.
JSONparse(blob) ==
    IF blob.kind = "json"
    THEN [threw |-> FALSE, value |-> blob.value]
    ELSE [threw |-> TRUE, value |-> EmptyObject]

(***************************************************************************)
(* Session registry: the operations of sessionStorage, as functions of the *)
(* stored text, the arguments, the clock readings and whether localStorage *)
(* fails. Each gives the stored text afterwards and the value returned.    *)
(***************************************************************************)

\* What a call gives its caller: the session, the mapping or the sessions it
\* returns, and whether it threw instead of returning.
NoRet == [one |-> NoEntry, all |-> EmptyObject, active |-> {}, threw |-> FALSE]

\* A getAllSessions that returns the parsed object with its expired entries.
getAllSessions_NoPrune(blob, t, failRead) ==
    IF failRead \/ blob.kind # "json" THEN EmptyObject
    ELSE IF blob.value.kind = "object"
            /\ \E id \in Ids : blob.value.map[id].kind = "null"
    THEN EmptyObject
    ELSE blob.value

\* A getAllSessions that passes over null entries (sessions[id] && ...)
\* and returns them.
getAllSessions_SkipsNull(blob, t, failRead) ==
    IF failRead \/ blob.kind # "json" THEN EmptyObject
    ELSE IF blob.value.kind # "object" THEN blob.value
    ELSE Object([id \in Ids |->
            IF /\ blob.value.map[id].kind = "session"
               /\ t - blob.value.map[id].timestamp > SESSION_EXPIRY_MS
            THEN NoEntry
            ELSE blob.value.map[id]])

\* getAllSessions(): the parsed object without its expired entries. It
\* calls getItem and JSON.parse and never setItem; every failure gives {}.
getAllSessions(blob, t, failRead) ==
    IF failRead THEN EmptyObject
    ELSE IF blob.kind = "absent" THEN EmptyObject
    ELSE LET p == JSONparse(blob) IN
         IF p.threw THEN EmptyObject
         ELSE IF p.value.kind # "object" THEN p.value
         ELSE IF \E id \in Ids : p.value.map[id].kind = "null" THEN EmptyObject
         ELSE Object([id \in Ids |->
                 IF /\ p.value.map[id].kind = "session"
                    /\ t - p.value.map[id].timestamp > SESSION_EXPIRY_MS
                 THEN NoEntry
                 ELSE p.value.map[id]])

\* A removeSession that writes an empty object.
removeSession_RemovesAll(blob, id, t, failRead, failWrite) ==
    LET j == JSONstringify(EmptyObject)
    IN  IF j.threw \/ failWrite THEN blob ELSE j.text

\* removeSession(sessionId): the stored text afterwards.
removeSession(blob, id, t, failRead, failWrite) ==
    LET sessions == getAllSessions(blob, t, failRead)
        after    == IF sessions.kind = "object"
                    THEN Object([sessions.map EXCEPT ![id] = NoEntry])
                    ELSE sessions
        j        == JSONstringify(after)
    IN  IF j.threw \/ failWrite THEN blob ELSE j.text

\* A saveSession that stores the session without its messages.
saveSession_DropsMessages(blob, id, projectPath, messages, t1, t2, failRead, failWrite) ==
    LET j == JSONstringify(Object([RawRead(blob).map EXCEPT
                 ![id] = StoredSession(id, projectPath, <<>>, t2)]))
    IN  IF j.threw \/ failWrite THEN blob ELSE j.text

\* A saveSession that writes an object holding the saved session alone.
saveSession_Alone(blob, id, projectPath, messages, t1, t2, failRead, failWrite) ==
    LET j == JSONstringify(Object([EmptyMap EXCEPT
                 ![id] = StoredSession(id, projectPath, messages, t2)]))
    IN  IF j.threw \/ failWrite THEN blob ELSE j.text

\* saveSession(sessionId, projectPath, messages): the stored text afterwards.
\* t1 is the clock getAllSessions reads, t2 the one the timestamp takes.
saveSession(blob, id, projectPath, messages, t1, t2, failRead, failWrite) ==
    LET sessions == getAllSessions(blob, t1, failRead) IN
    IF sessions.kind # "object" THEN blob
    ELSE LET j == JSONstringify(Object([sessions.map EXCEPT
                      ![id] = StoredSession(id, projectPath, messages, t2)]))
         IN  IF j.threw \/ failWrite THEN blob ELSE j.text

\* A getSession that removes the entry of a session it does not find.
getSession_RemovesMissing(blob, id, t1, t2, failRead, failWrite) ==
    LET sessions == getAllSessions(blob, t1, failRead)
        session  == sessions.map[id]
    IN  IF session.kind # "session"
        THEN [store |-> removeSession(blob, id, t2, failRead, failWrite),
              one |-> NullEntry]
        ELSE IF t2 - session.timestamp > SESSION_EXPIRY_MS
        THEN [store |-> removeSession(blob, id, t2, failRead, failWrite),
              one |-> NullEntry]
        ELSE [store |-> blob, one |-> session]

\* getSession(sessionId): t1 is the clock getAllSessions reads, t2 the one the
\* expiry check reads.
getSession(blob, id, t1, t2, failRead, failWrite) ==
    LET sessions == getAllSessions(blob, t1, failRead)
        session  == sessions.map[id]
    IN  IF session.kind # "session"
        THEN [store |-> blob, one |-> NullEntry]
        ELSE IF t2 - session.timestamp > SESSION_EXPIRY_MS
        THEN [store |-> removeSession(blob, id, t2, failRead, failWrite),
              one |-> NullEntry]
        ELSE [store |-> blob, one |-> session]

\* A filter with the comparison of getSession: a session is dropped when its
\* age is above the expiry.
getActiveSessions_AboveExpiry(blob, t1, t2, failRead) ==
    LET sessions == getAllSessions(blob, t1, failRead) IN
    {sessions.map[id] : id \in
        {i \in Ids : /\ sessions.map[i].kind = "session"
                     /\ ~(t2 - sessions.map[i].timestamp > SESSION_EXPIRY_MS)}}

\* getActiveSessions(): the values of getAllSessions() that pass the filter.
getActiveSessions(blob, t1, t2, failRead) ==
    LET sessions == getAllSessions(blob, t1, failRead) IN
    {sessions.map[id] : id \in
        {i \in Ids : /\ sessions.map[i].kind = "session"
                     /\ t2 - sessions.map[i].timestamp < SESSION_EXPIRY_MS}}

\* getActiveSessions() has no try block: it throws if getAllSessions() gave
\* it a null value, whose timestamp the filter reads.
getActiveSessionsThrows(blob, t1, failRead) ==
    LET sessions == getAllSessions(blob, t1, failRead) IN
    sessions.kind = "object" /\ \E id \in Ids : sessions.map[id].kind = "null"

\* clearAllSessions(): the stored text afterwards.
clearAllSessions(blob, failWrite) == IF failWrite THEN blob ELSE AbsentBlob

\* A keep-alive that saves without looking for the session in the store.
keepAlive_NoCheck(blob, id, projectPath, t1, t2, failRead, failWrite) ==
    LET sessions == getAllSessions(blob, t1, failRead)
    IN  saveSession(blob, id, projectPath, sessions.map[id].messages, t2, t2,
                    failRead, failWrite)

\* The callback of SessionProvider's save interval for the active session
\* (id, projectPath): the stored text afterwards.  t1 is the clock its own
\* getAllSessions reads, t2 the clock saveSession reads.
keepAlive(blob, id, projectPath, t1, t2, failRead, failWrite) ==
    LET sessions == getAllSessions(blob, t1, failRead)
    IN  IF sessions.map[id].kind = "session"
        THEN saveSession(blob, id, projectPath, sessions.map[id].messages, t2, t2,
                         failRead, failWrite)
        ELSE blob

(***************************************************************************)
(* Session registry: state machine                                         *)
(***************************************************************************)

\* How localStorage may fail during a call: not at all, on writing only (the
\* quota is exceeded), or on every access (storage is unavailable).
Failures == {"none", "quota", "unavailable"}

FailRead(f) == f = "unavailable"

FailWrite(f) == f \in {"quota", "unavailable"}

Call(name, id, projectPath, messages, t, f) ==
    [name |-> name, id |-> id, projectPath |-> projectPath,
     messages |-> messages, t0 |-> now, t |-> t, pre |-> store, fail |-> f]

NoCall(name) ==
    [name |-> name, id |-> "", projectPath |-> "", messages |-> <<>>,
     t0 |-> 0, t |-> 0, pre |-> AbsentBlob, fail |-> "none"]

\* What the key may hold when the application starts: nothing, text that is
\* not JSON, JSON that is not an object, an object with a null entry.
InitBlobs ==
    {AbsentBlob, CorruptBlob, JsonBlob(NumberValue),
     JsonBlob(Object([EmptyMap EXCEPT !["s1"] = NullEntry]))}

\* The clients that share the localStorage key: two windows of the
\* application.
Clients == {"a", "b"}

\* Bound: the clients enter at most MaxWrites calls that write the store.
MaxWrites == 2

\* A client that is not inside a call.
IdleWriter ==
    [phase |-> "idle", name |-> "", id |-> "", projectPath |-> "",
     messages |-> <<>>, t |-> 0, read |-> AbsentBlob, value |-> EmptyObject]

\* A client that has read the store (getItem) and holds the object it will
\* write (setItem): the text it read and the object as changed in memory.
Writer(name, id, projectPath, messages, value) ==
    [phase |-> "read", name |-> name, id |-> id, projectPath |-> projectPath,
     messages |-> messages, t |-> now, read |-> store, value |-> value]

\* The setItem made last: the call it ended and the text it replaced.
NoWrite ==
    [done |-> FALSE, failed |-> FALSE, client |-> "", call |-> IdleWriter,
     replaced |-> AbsentBlob]

NoRace ==
    [pending |-> [c \in Clients |-> IdleWriter], last |-> NoWrite, begun |-> 0]

RegInit ==
    /\ store \in InitBlobs
    /\ now = 0
    /\ op = NoCall("init")
    /\ ret = NoRet
    /\ race = NoRace

Tick ==
    /\ \E t \in Instants : t > now /\ now' = t
    /\ op' = NoCall("tick")
    /\ ret' = NoRet
    /\ UNCHANGED store
    /\ UNCHANGED <<race, tlVars>>

\* The bodies of saveSession, getSession, getAllSessions, removeSession and
\* clearAllSessions are try blocks whose catch logs and returns: nothing they
\* call throws to the caller.
SaveSession ==
    \E id \in Ids, p \in Paths, m \in MessageInputs, d \in Drift, f \in Failures :
        /\ now + d \in Instants
        /\ store' = saveSession(store, id, p, m, now, now + d,
                                FailRead(f), FailWrite(f))
        /\ now' = now + d
        /\ op' = Call("saveSession", id, p, m, now + d, f)
        /\ ret' = NoRet
        /\ UNCHANGED <<race, tlVars>>

GetSession ==
    \E id \in Ids, d \in Drift, f \in Failures :
        LET r == getSession(store, id, now, now + d, FailRead(f), FailWrite(f)) IN
        /\ now + d \in Instants
        /\ store' = r.store
        /\ now' = now + d
        /\ op' = Call("getSession", id, "", <<>>, now + d, f)
        /\ ret' = [NoRet EXCEPT !.one = r.one]
        /\ UNCHANGED <<race, tlVars>>

\* A getAllSessions that writes the pruned object back to localStorage.
GetAllSessions_WritesBack ==
    \E f \in Failures :
        LET r == getAllSessions(store, now, FailRead(f)) IN
        /\ ret' = [NoRet EXCEPT !.all = r]
        /\ store' = IF FailWrite(f) THEN store ELSE JSONstringify(r).text
        /\ op' = Call("getAllSessions", "", "", <<>>, now, f)
        /\ UNCHANGED now
        /\ UNCHANGED <<race, tlVars>>

GetAllSessions ==
    \E f \in Failures :
        /\ ret' = [NoRet EXCEPT !.all = getAllSessions(store, now, FailRead(f))]
        /\ op' = Call("getAllSessions", "", "", <<>>, now, f)
        /\ UNCHANGED <<store, now>>
        /\ UNCHANGED <<race, tlVars>>

RemoveSession ==
    \E id \in Ids, f \in Failures :
        /\ store' = removeSession(store, id, now, FailRead(f), FailWrite(f))
        /\ op' = Call("removeSession", id, "", <<>>, now, f)
        /\ ret' = NoRet
        /\ UNCHANGED now
        /\ UNCHANGED <<race, tlVars>>

GetActiveSessions ==
    \E d \in Drift, f \in Failures :
        /\ now + d \in Instants
        /\ ret' = IF getActiveSessionsThrows(store, now, FailRead(f))
                  THEN [NoRet EXCEPT !.threw = TRUE]
                  ELSE [NoRet EXCEPT
                          !.active = getActiveSessions(store, now, now + d, FailRead(f))]
        /\ now' = now + d
        /\ op' = Call("getActiveSessions", "", "", <<>>, now + d, f)
        /\ UNCHANGED store
        /\ UNCHANGED <<race, tlVars>>

ClearAllSessions ==
    \E f \in Failures :
        /\ store' = clearAllSessions(store, FailWrite(f))
        /\ op' = Call("clearAllSessions", "", "", <<>>, now, f)
        /\ ret' = NoRet
        /\ UNCHANGED now
        /\ UNCHANGED <<race, tlVars>>

\* The save interval of SessionProvider fires.  The interval runs while
\* activeSession.isActive; activeSession is what a consumer last passed to
\* setActiveSession, so any session id and project path may be current.
KeepAlive ==
    \E id \in Ids, p \in Paths, d \in Drift, f \in Failures :
        /\ now + d \in Instants
        /\ store' = keepAlive(store, id, p, now, now + d, FailRead(f), FailWrite(f))
        /\ now' = now + d
        /\ op' = Call("keepAlive", id, p, <<>>, now + d, f)
        /\ ret' = NoRet
        /\ UNCHANGED <<race, tlVars>>

\* A client enters saveSession: getAllSessions() and the assignment of the
\* new entry, up to the call of setItem.
BeginSave ==
    \E c \in Clients, id \in Ids :
        /\ race.pending[c].phase = "idle"
        /\ race.begun < MaxWrites
        /\ LET sessions == getAllSessions(store, now, FALSE)
               value == IF sessions.kind = "object"
                        THEN Object([sessions.map EXCEPT
                                 ![id] = StoredSession(id, "/p", <<"m1">>, now)])
                        ELSE sessions
           IN  race' = [race EXCEPT !.begun = @ + 1, !.pending[c] =
                           Writer("saveSession", id, "/p", <<"m1">>, value)]
        /\ op' = Call("getItem", id, "/p", <<"m1">>, now, "none")
        /\ ret' = NoRet
        /\ UNCHANGED <<store, now>>
        /\ UNCHANGED tlVars

\* A client enters removeSession: getAllSessions() and the delete, up to
\* the call of setItem.
BeginRemove ==
    \E c \in Clients, id \in Ids :
        /\ race.pending[c].phase = "idle"
        /\ race.begun < MaxWrites
        /\ LET sessions == getAllSessions(store, now, FALSE)
               value == IF sessions.kind = "object"
                        THEN Object([sessions.map EXCEPT ![id] = NoEntry])
                        ELSE sessions
           IN  race' = [race EXCEPT !.begun = @ + 1, !.pending[c] =
                           Writer("removeSession", id, "", <<>>, value)]
        /\ op' = Call("getItem", id, "", <<>>, now, "none")
        /\ ret' = NoRet
        /\ UNCHANGED <<store, now>>
        /\ UNCHANGED tlVars

\* The save interval of a client fires and finds its active session: the
\* saveSession it calls, up to the call of setItem.
BeginKeepAlive ==
    \E c \in Clients, id \in Ids :
        /\ race.pending[c].phase = "idle"
        /\ race.begun < MaxWrites
        /\ LET sessions == getAllSessions(store, now, FALSE) IN
            /\ sessions.map[id].kind = "session"
            /\ race' = [race EXCEPT !.begun = @ + 1, !.pending[c] =
                   Writer("keepAlive", id, "/p", sessions.map[id].messages,
                          Object([sessions.map EXCEPT ![id] =
                              StoredSession(id, "/p", sessions.map[id].messages, now)]))]
            /\ op' = Call("getItem", id, "/p", sessions.map[id].messages, now, "none")
        /\ ret' = NoRet
        /\ UNCHANGED <<store, now>>
        /\ UNCHANGED tlVars

\* A setItem that writes the client's object merged into the store of the
\* moment: the entries others stored since the read are kept.
SetItem_Merges ==
    \E c \in Clients :
        /\ race.pending[c].phase = "read"
        /\ LET current == RawRead(store)
               mine == race.pending[c].value
               merged == Object([id \in Ids |->
                             IF id = race.pending[c].id THEN mine.map[id]
                             ELSE current.map[id]])
           IN  store' = JSONstringify(merged).text
        /\ race' = [race EXCEPT
                       !.pending[c] = IdleWriter,
                       !.last = [done |-> TRUE, failed |-> FALSE, client |-> c,
                                 call |-> race.pending[c], replaced |-> store]]
        /\ op' = Call("setItem", race.pending[c].id, race.pending[c].projectPath,
                      race.pending[c].messages, now, "none")
        /\ ret' = NoRet
        /\ UNCHANGED now
        /\ UNCHANGED tlVars

\* The client's call reaches localStorage.setItem(key, JSON.stringify(
\* sessions)) and ends; a quota error is caught and logged.
SetItem ==
    \E c \in Clients, f \in {"none", "quota"} :
        /\ race.pending[c].phase = "read"
        /\ LET j == JSONstringify(race.pending[c].value) IN
            /\ store' = IF j.threw \/ FailWrite(f) THEN store ELSE j.text
            /\ race' = [race EXCEPT
                           !.pending[c] = IdleWriter,
                           !.last = [done |-> TRUE,
                                     failed |-> j.threw \/ FailWrite(f),
                                     client |-> c,
                                     call |-> race.pending[c],
                                     replaced |-> store]]
        /\ op' = Call("setItem", race.pending[c].id, race.pending[c].projectPath,
                      race.pending[c].messages, now, f)
        /\ ret' = NoRet
        /\ UNCHANGED now
        /\ UNCHANGED tlVars

\* Two clients save, remove and keep sessions alive, each between its read
\* and its write open to the steps of the other.
RaceNext ==
    \/ Tick
    \/ BeginSave
    \/ BeginRemove
    \/ BeginKeepAlive
    \/ SetItem

\* The registry as SessionProvider's keep-alive and the explicit saves and
\* removals use it.
KeepAliveNext ==
    \/ Tick
    \/ SaveSession
    \/ RemoveSession
    \/ KeepAlive

RegNext ==
    \/ Tick
    \/ SaveSession
    \/ GetSession
    \/ GetAllSessions
    \/ RemoveSession
    \/ GetActiveSessions
    \/ ClearAllSessions

(***************************************************************************)
(* Timeline controller: values                                             *)
(***************************************************************************)

\* Bound: the checkpoint API returns at most MaxCheckpoints checkpoints.
MaxCheckpoints == 3

\* Bound: at most MaxLoads loadCheckpoints invocations are in flight at once.
MaxLoads == 2

\* Bound: the clock of the component runs for MaxTicks steps of TICK_MS.
MaxTicks == 4

\* Bound: at most MaxForks fork callbacks are recorded.
MaxForks == 1

\* Bound: at most MaxListeners listen() registrations are pending or
\* registered at once.
MaxListeners == 2

\* Bound: where verifications are timed, the clock runs for MaxSeconds steps
\* of VERIFY_TICK_MS.
MaxSeconds == 4

\* Bound: at most MaxOps invocations of the create, fork, verify and diff
\* handlers are in flight at once.
MaxOps == 1

NULL == "null"

\* selectedCheckpoint when it is null (checkpoint ids start at 1).
NoCheckpoint == 0

\* TitorCheckpointInfo.messageIndex and .fileCount as the API reports them.
MessageIndexes == 0..2

\* The fileCount of the first checkpoint of an answer; the checkpoints after
\* it hold one file more each.
FileCounts == {0, 5}

\* TitorCheckpointInfo; checkpointId is an opaque identifier, here the place
\* of the checkpoint in the API's answer.
CheckpointInfo(id, messageIndex, fileCount) ==
    [checkpointId |-> id, messageIndex |-> messageIndex, fileCount |-> fileCount]

\* The answers of titorListCheckpoints with at most n checkpoints, in every
\* order of their messageIndex.
CheckpointLists(n) ==
    UNION {{[k \in 1..len |-> CheckpointInfo(k, f[k], fileCount + (k - 1))] :
                f \in [1..len -> MessageIndexes], fileCount \in FileCounts} :
           len \in 0..n}

\* An answer of titorDiffCheckpoints: a rejection, or the three file lists.
DiffFailed ==
    [state |-> "failed", addedFiles |-> <<>>, modifiedFiles |-> <<>>,
     deletedFiles |-> <<>>]

DiffPending ==
    [state |-> "pending", addedFiles |-> <<>>, modifiedFiles |-> <<>>,
     deletedFiles |-> <<>>]

Diff(added, modified, deleted) ==
    [state |-> "ok", addedFiles |-> added, modifiedFiles |-> modified,
     deletedFiles |-> deleted]

DiffAnswers ==
    {DiffFailed,
     Diff(<<>>, <<>>, <<>>),
     Diff(<<"a">>, <<>>, <<>>),
     Diff(<<"b">>, <<>>, <<"a">>),
     Diff(<<>>, <<"a", "b">>, <<>>)}

(***************************************************************************)
(* Timeline controller: the computation of loadCheckpoints                 *)
(***************************************************************************)

\* A sort that orders by messageIndex descending.
SortInsert_Descending(sorted, x) ==
    LET before == SelectSeq(sorted, LAMBDA c : c.messageIndex >= x.messageIndex)
        after  == SelectSeq(sorted, LAMBDA c : c.messageIndex < x.messageIndex)
    IN  before \o <<x>> \o after

\* One step of the stable sort: x goes after every element that does not
\* compare greater (a.messageIndex - b.messageIndex <= 0), given sorted is
\* ordered.
SortInsert(sorted, x) ==
    LET before == SelectSeq(sorted, LAMBDA c : c.messageIndex - x.messageIndex <= 0)
        after  == SelectSeq(sorted, LAMBDA c : c.messageIndex - x.messageIndex > 0)
    IN  before \o <<x>> \o after

\* (result || []).sort((a, b) => a.messageIndex - b.messageIndex): Array.sort
\* is stable.
RECURSIVE SortByMessageIndex(_)
SortByMessageIndex(result) ==
    IF result = <<>> THEN <<>>
    ELSE SortInsert(SortByMessageIndex(SubSeq(result, 1, Len(result) - 1)),
                    result[Len(result)])

\* Diff requests that all start from the first checkpoint.
DiffRequests_FromFirst(sortedCheckpoints) ==
    [k \in 1..(Len(sortedCheckpoints) - 1) |->
        [from |-> sortedCheckpoints[1].checkpointId,
         to |-> sortedCheckpoints[k + 1].checkpointId]]

\* The titorDiffCheckpoints calls the map callback makes, in the order of the
\* array: one for each index > 0 (here each place > 1), from the checkpoint
\* before it.
DiffRequests(sortedCheckpoints) ==
    [k \in 1..(Len(sortedCheckpoints) - 1) |->
        [from |-> sortedCheckpoints[k].checkpointId,
         to |-> sortedCheckpoints[k + 1].checkpointId]]

NoFilesChanged == [defined |-> FALSE, added |-> 0, modified |-> 0, deleted |-> 0]

NoDetailedFileChanges ==
    [defined |-> FALSE, added |-> <<>>, modified |-> <<>>, deleted |-> <<>>]

(***************************************************************************)
(* Timeline controller: extractMessageInfo                                 *)
(***************************************************************************)

\* The number of characters of a message the preview keeps.
PREVIEW_CHARS == 150

\* Bound: a message holds at most MaxItems content items.
MaxItems == 2

\* A string is the sequence of its characters.
Letter(i) == IF i % 2 = 1 THEN "a" ELSE "b"

Text(n) == [i \in 1..n |-> Letter(i)]

Ellipsis == <<".", ".", ".">>

NoContent == <<"N", "o", " ", "c", "o", "n", "t", "e", "n", "t">>

\* The lengths of the texts of the messages: empty, short, exactly at the
\* limit and beyond it.
TextLengths == {0, 1, 2, PREVIEW_CHARS, PREVIEW_CHARS + 1}

\* The text property of a content item: undefined, a string, or an object
\* with a text property of its own (value is then that property, the empty
\* string standing for one that is missing or empty).
NoText == [kind |-> "none", value |-> <<>>]

TextValues ==
    {NoText} \cup
    {[kind |-> k, value |-> Text(n)] : k \in {"string", "object"}, n \in TextLengths}

\* The tool names of tool_use items; "" is an item without a name.
ToolNames == {"", "Read", "Edit"}

\* A content item: its type, its text and its name.
TextItem(text) == [type |-> "text", text |-> text, name |-> ""]

ToolUseItem(name) == [type |-> "tool_use", text |-> NoText, name |-> name]

ContentItems ==
    {TextItem(text) : text \in TextValues} \cup {ToolUseItem(name) : name \in ToolNames}

\* message.message.content: undefined, a string or an array of items.
NoMessageContent == [kind |-> "none", string |-> <<>>, items |-> <<>>]

StringContent(string) == [kind |-> "string", string |-> string, items |-> <<>>]

ArrayContent(items) == [kind |-> "array", string |-> <<>>, items |-> items]

MessageContents ==
    {NoMessageContent}
    \cup {StringContent(Text(n)) : n \in TextLengths}
    \cup UNION {{ArrayContent(items) : items \in [1..len -> ContentItems]} :
                 len \in 0..MaxItems}

\* A ClaudeStreamMessage: its type and message.content.
StreamMessages ==
    {[type |-> type, content |-> content] :
        type \in {"assistant", "user", "system"}, content \in MessageContents}

\* JavaScript's truthiness of a text property and of message.content: the
\* empty string and undefined are falsy, objects and arrays are truthy.
TruthyText(text) ==
    \/ text.kind = "object"
    \/ text.kind = "string" /\ Len(text.value) > 0

TruthyContent(content) ==
    \/ content.kind = "array"
    \/ content.kind = "string" /\ Len(content.string) > 0

\* A preview that cuts the text so that the ellipsis fits in the limit.
Preview_Fits(text) ==
    IF Len(text) > PREVIEW_CHARS
    THEN SubSeq(text, 1, PREVIEW_CHARS - Len(Ellipsis)) \o Ellipsis
    ELSE text

\* text.substring(0, 150) + (text.length > 150 ? '...' : '').
Preview(text) ==
    SubSeq(text, 1, IF Len(text) < PREVIEW_CHARS THEN Len(text) ELSE PREVIEW_CHARS)
        \o (IF Len(text) > PREVIEW_CHARS THEN Ellipsis ELSE <<>>)

\* The for loop over the items of an assistant message, from the values of
\* content and tools before it.
RECURSIVE AssistantItems(_, _, _)
AssistantItems(items, content, tools) ==
    IF items = <<>> THEN [content |-> content, tools |-> tools]
    ELSE LET item == Head(items)
             textValue == IF TruthyText(item.text) THEN item.text.value ELSE <<>>
         IN  IF item.type = "text"
             THEN AssistantItems(Tail(items),
                      IF Len(textValue) > 0 /\ Len(content) < PREVIEW_CHARS
                      THEN Preview(textValue)
                      ELSE content,
                      tools)
             ELSE IF item.type = "tool_use" /\ item.name # ""
             THEN AssistantItems(Tail(items), content, Append(tools, item.name))
             ELSE AssistantItems(Tail(items), content, tools)

\* content.find(c => c.type === 'text'): the first text item, or an item
\* without text when there is none.
FirstTextItem(items) ==
    IF \E k \in 1..Len(items) : items[k].type = "text"
    THEN items[CHOOSE k \in 1..Len(items) :
                  /\ items[k].type = "text"
                  /\ \A j \in 1..(k - 1) : items[j].type # "text"]
    ELSE TextItem(NoText)

\* extractMessageInfo(messageIndex), over the messages prop; messageIndex
\* counts from 0.
extractMessageInfo(messages, messageIndex) ==
    IF messageIndex < 0 \/ messageIndex >= Len(messages)
    THEN [content |-> <<>>, tools |-> <<>>]
    ELSE LET message == messages[messageIndex + 1]
             found ==
                 IF message.type = "assistant" /\ TruthyContent(message.content)
                 THEN IF message.content.kind = "array"
                      THEN AssistantItems(message.content.items, <<>>, <<>>)
                      ELSE [content |-> Preview(message.content.string),
                            tools |-> <<>>]
                 ELSE IF message.type = "user" /\ TruthyContent(message.content)
                 THEN IF message.content.kind = "array"
                      THEN LET textContent == FirstTextItem(message.content.items) IN
                           [content |-> IF TruthyText(textContent.text)
                                        THEN Preview(textContent.text.value)
                                        ELSE <<>>,
                            tools |-> <<>>]
                      ELSE [content |-> <<>>, tools |-> <<>>]
                 ELSE [content |-> <<>>, tools |-> <<>>]
         IN  [content |-> IF found.content = <<>> THEN NoContent ELSE found.content,
              tools |-> found.tools]

\* The object the map callback of loadCheckpoints returns.
CheckpointWithUIState(checkpoint, filesChanged, detailedFileChanges) ==
    [checkpointId |-> checkpoint.checkpointId,
     messageIndex |-> checkpoint.messageIndex,
     fileCount |-> checkpoint.fileCount,
     verified |-> FALSE,
     messageContent |-> extractMessageInfo(props.messages, checkpoint.messageIndex).content,
     toolsUsed |-> extractMessageInfo(props.messages, checkpoint.messageIndex).tools,
     filesChanged |-> filesChanged,
     detailedFileChanges |-> detailedFileChanges]

\* An enrichment that treats the first checkpoint like the others (and so
\* leaves it without file changes, there being no diff for it).
Enhance_NoFirstCase(checkpoint, place, diff) ==
    IF diff.state = "ok"
    THEN CheckpointWithUIState(checkpoint,
            [defined |-> TRUE, added |-> Len(diff.addedFiles),
             modified |-> Len(diff.modifiedFiles),
             deleted |-> Len(diff.deletedFiles)],
            [defined |-> TRUE, added |-> diff.addedFiles,
             modified |-> diff.modifiedFiles, deleted |-> diff.deletedFiles])
    ELSE CheckpointWithUIState(checkpoint, NoFilesChanged, NoDetailedFileChanges)

\* The map callback of loadCheckpoints for the checkpoint at a place of the
\* sorted array (place 1 is index 0), given the answer to its diff request.
Enhance(checkpoint, place, diff) ==
    IF place > 1
    THEN IF diff.state = "ok"
         THEN CheckpointWithUIState(checkpoint,
                 [defined |-> TRUE, added |-> Len(diff.addedFiles),
                  modified |-> Len(diff.modifiedFiles),
                  deleted |-> Len(diff.deletedFiles)],
                 [defined |-> TRUE, added |-> diff.addedFiles,
                  modified |-> diff.modifiedFiles, deleted |-> diff.deletedFiles])
         ELSE CheckpointWithUIState(checkpoint, NoFilesChanged, NoDetailedFileChanges)
    ELSE CheckpointWithUIState(checkpoint,
            [defined |-> TRUE, added |-> checkpoint.fileCount,
             modified |-> 0, deleted |-> 0],
            [defined |-> TRUE, added |-> <<>>, modified |-> <<>>, deleted |-> <<>>])

\* A filter that keeps every checkpoint whose filesChanged is defined.
HasFileChanges_AnyDefined(checkpoint) == checkpoint.filesChanged.defined

\* The filter predicate of loadCheckpoints.
HasFileChanges(checkpoint) ==
    /\ checkpoint.filesChanged.defined
    /\ \/ checkpoint.filesChanged.added > 0
       \/ checkpoint.filesChanged.modified > 0
       \/ checkpoint.filesChanged.deleted > 0

\* enhancedCheckpoints, once every diff request has settled.
EnhancedCheckpoints(sortedCheckpoints, diffs) ==
    [i \in 1..Len(sortedCheckpoints) |-> Enhance(sortedCheckpoints[i], i, diffs[i])]

\* checkpointsWithFileChanges.
CheckpointsWithFileChanges(enhancedCheckpoints) ==
    SelectSeq(enhancedCheckpoints, HasFileChanges)

(***************************************************************************)
(* Timeline controller: state                                              *)
(***************************************************************************)

DEBOUNCE_MS == 500

\* The delay after which handleVerifyCheckpoint takes the verified mark back.
VERIFY_RESET_MS == 3000

\* The grain of the clock where verifications are timed.
VERIFY_TICK_MS == VERIFY_RESET_MS \div 3

\* Values of the sessionId prop.
SessionIds == {"session", "other"}

\* Values of the currentMessageIndex prop.
PropIndexes == {0, 1}

\* The grain of the component's clock.
TICK_MS == DEBOUNCE_MS \div 2

\* Values of the fork description: empty, white space only, and text.
ForkMessages == {<<>>, <<" ">>, <<" ", "f">>}

RECURSIVE TrimStart(_)
TrimStart(str) ==
    IF str # <<>> /\ Head(str) = " " THEN TrimStart(Tail(str)) ELSE str

RECURSIVE TrimEnd(_)
TrimEnd(str) ==
    IF str # <<>> /\ str[Len(str)] = " "
    THEN TrimEnd(SubSeq(str, 1, Len(str) - 1))
    ELSE str

\* String.prototype.trim.
Trim(str) == TrimEnd(TrimStart(str))

\* A value of diffData: null, or the answer of titorDiffCheckpointsDetailed
\* to a request.
NoDiffData ==
    [defined |-> FALSE, fromCheckpointId |-> NoCheckpoint,
     toCheckpointId |-> NoCheckpoint, contextLines |-> 0,
     ignoreWhitespace |-> FALSE]

\* The answer of titorDiffCheckpointsDetailed to a request: the diff of the
\* pair asked for, with the options asked for.
DetailedDiff(request) ==
    [defined |-> TRUE, fromCheckpointId |-> request.fromCheckpointId,
     toCheckpointId |-> request.toCheckpointId,
     contextLines |-> request.contextLines,
     ignoreWhitespace |-> request.ignoreWhitespace]

\* useState initial values.
InitialState ==
    [checkpoints |-> <<>>, isLoading |-> FALSE, error |-> NULL,
     isOpen |-> FALSE, selectedCheckpoint |-> NoCheckpoint, showForkDialog |-> FALSE,
     forkMessage |-> <<>>, isCreatingCheckpoint |-> FALSE, isRestoring |-> FALSE,
     showDiffDialog |-> FALSE, diffData |-> NoDiffData, diffLoading |-> FALSE,
     diffFromCheckpoint |-> NoCheckpoint, diffToCheckpoint |-> NoCheckpoint]

\* A loadCheckpoints invocation: not running, awaiting the list, or awaiting
\* the diffs of Promise.all. diffs[k] is the k-th titorDiffCheckpoints call
\* and its answer; awaiter is the handler that awaits the invocation.
IdleLoad ==
    [phase |-> "idle", result |-> <<>>, sortedCheckpoints |-> <<>>,
     diffs |-> <<>>, awaiter |-> "none"]

\* handleForkCheckpoint in flight: awaiting titorForkCheckpoint ("remote") or
\* the reload ("reload"), with the values its closure holds.
IdleFork ==
    [phase |-> "idle", checkpointId |-> NoCheckpoint, forkMessage |-> <<>>,
     forkedCheckpointId |-> NoCheckpoint]

\* handleCreateCheckpoint in flight: awaiting titorCheckpointMessage
\* ("remote"), called with messageIndex, or the reload ("reload").
IdleCreate == [phase |-> "idle", messageIndex |-> 0]

\* handleVerifyCheckpoint in flight: awaiting titorVerifyCheckpoint.
IdleVerify == [phase |-> "idle", checkpointId |-> NoCheckpoint]

\* showDiff in flight: awaiting titorDiffCheckpointsDetailed.
IdleShowDiff ==
    [phase |-> "idle", fromCheckpointId |-> NoCheckpoint,
     toCheckpointId |-> NoCheckpoint, contextLines |-> 0,
     ignoreWhitespace |-> FALSE]

\* The load that completed last: what the API returned, what the load made
\* of it, and the handler that awaited it.
NoLoad ==
    [outcome |-> "none", result |-> <<>>, sortedCheckpoints |-> <<>>,
     diffs |-> <<>>, enhancedCheckpoints |-> <<>>, published |-> <<>>,
     awaiter |-> "none"]

InitialHistory ==
    [event |-> "mount", load |-> NoLoad,
     \* the burst of currentMessageIndex updates under way while the view is
     \* open: whether there is one, whether it has several updates, when its
     \* last update came, whether checkpoints were published then, and the
     \* loads the timer has started since the burst began
     inBurst |-> FALSE, several |-> FALSE, lastUpdate |-> 0, hadCheckpoints |-> FALSE,
     debouncedLoads |-> 0, debouncedAt |-> 0,
     \* the onForkCheckpoint calls made
     forked |-> <<>>,
     \* the onCheckpointRestore calls made by the last invocation of
     \* handleRestoreCheckpoint
     restored |-> <<>>]

\* The component as mounted, with the view closed, at a message of a
\* conversation.
MountedWith(world, currentMessageIndex, messages) ==
    /\ props = [sessionId |-> "session", currentMessageIndex |-> currentMessageIndex,
                messages |-> messages]
    /\ ui = InitialState
    /\ loads = [l \in 1..MaxLoads |-> IdleLoad]
    /\ pend = [fork |-> IdleFork, listen |-> <<>>, create |-> IdleCreate,
               verify |-> IdleVerify, showDiff |-> IdleShowDiff]
    /\ timers = [debounce |-> {}, verify |-> {}]
    /\ time = 0
    /\ api = world
    /\ h = InitialHistory

\* The component as mounted at a message, with no message to preview.
MountedAt(world, currentMessageIndex) == MountedWith(world, currentMessageIndex, <<>>)

\* The component as mounted at the start of the conversation.
Mounted(world) == MountedAt(world, 0)

HasFreeLoad == \E l \in 1..MaxLoads : loads[l].phase = "idle"

FreeLoad ==
    CHOOSE l \in 1..MaxLoads :
        /\ loads[l].phase = "idle"
        /\ \A k \in 1..(l - 1) : loads[k].phase # "idle"

\* loadCheckpoints up to its first await: setIsLoading(true), setError(null)
\* and the list request.
LoadStarted(awaiter) == [IdleLoad EXCEPT !.phase = "list", !.awaiter = awaiter]

Loading(u) == [u EXCEPT !.isLoading = TRUE, !.error = NULL]

\* A cleanup that leaves the timer of the previous effect pending.
ClearTimeout_Missing(pending) == pending

\* The cleanup of the debounce effect, clearTimeout(timer), on the deadlines
\* pending: the effect that is cleaned up had set the only one.
ClearTimeout(pending) == {}

\* The debounce effect of a render with state u: the deadline of the timer
\* it sets, if it sets one.
DebounceEffect(u) ==
    IF props.sessionId # "" /\ u.isOpen /\ Len(u.checkpoints) > 0
    THEN {time + DEBOUNCE_MS}
    ELSE {}

\* A debounce effect that returns no cleanup.
DebounceRerun_NoCleanup(u) == timers.debounce \cup DebounceEffect(u)

\* The debounce effect runs again after a render with state u: the cleanup
\* of its last run, then the effect.
DebounceRerun(u) == ClearTimeout(timers.debounce) \cup DebounceEffect(u)

\* A listen() call of the listen effect on the channel
\* checkpoint-created:<sessionId>: its promise is pending or has resolved
\* ("registered"), and current tells whether the effect that made the call
\* is the one that runs last (its cleanup has not run).
Listener(sessionId) == [channel |-> sessionId, state |-> "pending", current |-> TRUE]

\* The cleanup of the listen effect, if (unlisten) unlisten(): unlisten is
\* set only once the promise has resolved, so a registration still pending
\* stays, and nothing can remove it afterwards.
ListenCleanup(listeners) ==
    LET kept == SelectSeq(listeners, LAMBDA r : ~(r.current /\ r.state = "registered"))
    IN  [k \in 1..Len(kept) |-> [kept[k] EXCEPT !.current = FALSE]]

\* The listen effect of a render with state u and prop sessionId.
ListenEffect(u, sessionId) ==
    IF sessionId # "" /\ u.isOpen THEN <<Listener(sessionId)>> ELSE <<>>

\* The listen effect runs again: the cleanup of its last run, then the
\* effect.
ListenRerun(u, sessionId) == ListenCleanup(pend.listen) \o ListenEffect(u, sessionId)

\* The listeners the event system calls for an event on a channel.
Registered(channel) ==
    {k \in 1..Len(pend.listen) :
        pend.listen[k].state = "registered" /\ pend.listen[k].channel = channel}

\* The places of loads free for new invocations.
IdleLoads == {l \in 1..MaxLoads : loads[l].phase = "idle"}

\* n invocations of loadCheckpoints start, in the first n free places.
StartLoads(n, awaiter) ==
    [l \in 1..MaxLoads |->
        IF l \in IdleLoads /\ Cardinality({k \in IdleLoads : k <= l}) <= n
        THEN LoadStarted(awaiter)
        ELSE loads[l]]

\* A timer is due: its callback runs before anything else happens.
TimerDue ==
    \/ \E at \in timers.debounce : at <= time
    \/ \E timer \in timers.verify : timer.at <= time

\* What the load that completed leaves in the history.
LoadSummary(load, outcome, enhanced, published) ==
    [outcome |-> outcome, result |-> load.result,
     sortedCheckpoints |-> load.sortedCheckpoints, diffs |-> load.diffs,
     enhancedCheckpoints |-> enhanced, published |-> published,
     awaiter |-> load.awaiter]

\* Answers taken in the order in which the requests settled.
AnswerAt_BySettlement(load, place) ==
    IF place > 1
    THEN LET k == CHOOSE k \in 1..Len(load.diffs) : load.diffs[k].settled = place - 1
         IN  load.diffs[k].answer
    ELSE DiffPending

\* The answers to the diff requests, by place in the sorted array.
AnswerAt(load, place) ==
    IF place > 1 THEN load.diffs[place - 1].answer ELSE DiffPending

\* A load whose map callback lets the rejection of a diff request through to
\* the outer catch.
LoadResolved_DiffFatal(load) ==
    IF \E k \in 1..Len(load.diffs) : load.diffs[k].answer.state = "failed"
    THEN [ui |-> [ui EXCEPT !.error = "Failed to load checkpoints",
                            !.isLoading = FALSE],
          summary |-> LoadSummary(load, "failed", <<>>, ui.checkpoints)]
    ELSE LET enhanced  == EnhancedCheckpoints(load.sortedCheckpoints,
                            [i \in 1..Len(load.sortedCheckpoints) |-> AnswerAt(load, i)])
             published == CheckpointsWithFileChanges(enhanced)
         IN  [ui |-> [ui EXCEPT !.checkpoints = published, !.isLoading = FALSE],
              summary |-> LoadSummary(load, "ok", enhanced, published)]

\* loadCheckpoints from Promise.all's resolution to its end.
LoadResolved(load) ==
    LET enhanced  == EnhancedCheckpoints(load.sortedCheckpoints,
                        [i \in 1..Len(load.sortedCheckpoints) |-> AnswerAt(load, i)])
        published == CheckpointsWithFileChanges(enhanced)
    IN  [ui |-> [ui EXCEPT !.checkpoints = published, !.isLoading = FALSE],
         summary |-> LoadSummary(load, "ok", enhanced, published)]

\* A catch block that also empties the published sequence.
LoadRejected_Clears(load) ==
    [ui |-> [ui EXCEPT !.error = "Failed to load checkpoints", !.isLoading = FALSE,
                       !.checkpoints = <<>>],
     summary |-> LoadSummary(load, "failed", <<>>, <<>>)]

\* A loadCheckpoints whose catch block is its end, with no finally.
LoadRejected_NoFinally(load) ==
    [ui |-> [ui EXCEPT !.error = "Failed to load checkpoints"],
     summary |-> LoadSummary(load, "failed", <<>>, ui.checkpoints)]

\* loadCheckpoints from the rejection of the list request to its end.
LoadRejected(load) ==
    [ui |-> [ui EXCEPT !.error = "Failed to load checkpoints", !.isLoading = FALSE],
     summary |-> LoadSummary(load, "failed", <<>>, ui.checkpoints)]

\* A handler that notifies the parent with the description as cleared by
\* setForkMessage("").
ForkResumes_Cleared(u) ==
    [ui |-> [u EXCEPT !.showForkDialog = FALSE, !.forkMessage = <<>>,
                      !.selectedCheckpoint = NoCheckpoint, !.isOpen = FALSE,
                      !.isRestoring = FALSE],
     pend |-> [pend EXCEPT !.fork = IdleFork,
                           !.listen = IF u.isOpen THEN ListenCleanup(@) ELSE @],
     timers |-> [timers EXCEPT !.debounce =
                    IF u.isOpen THEN ClearTimeout(@) ELSE @],
     forked |-> Append(h.forked, [forkedCheckpointId |-> pend.fork.forkedCheckpointId,
                                  forkMessage |-> <<>>]),
     inBurst |-> FALSE]

\* handleForkCheckpoint from the end of the reload it awaited: the dialogs
\* close, the effects of isOpen are cleaned up, and the parent is notified
\* with the description the handler was called with.
ForkResumes(u) ==
    [ui |-> [u EXCEPT !.showForkDialog = FALSE, !.forkMessage = <<>>,
                      !.selectedCheckpoint = NoCheckpoint, !.isOpen = FALSE,
                      !.isRestoring = FALSE],
     pend |-> [pend EXCEPT !.fork = IdleFork,
                           !.listen = IF u.isOpen THEN ListenCleanup(@) ELSE @],
     timers |-> [timers EXCEPT !.debounce =
                    IF u.isOpen THEN ClearTimeout(@) ELSE @],
     forked |-> Append(h.forked, [forkedCheckpointId |-> pend.fork.forkedCheckpointId,
                                  forkMessage |-> pend.fork.forkMessage]),
     inBurst |-> FALSE]

\* The history once the view is opened or closed: no burst is under way.
NoBurst(history) ==
    [history EXCEPT !.inBurst = FALSE, !.several = FALSE,
                    !.lastUpdate = 0, !.hadCheckpoints = FALSE,
                    !.debouncedLoads = 0, !.debouncedAt = 0]

\* handleCreateCheckpoint from the end of the reload it awaited.
CreateResumes(u) ==
    [ui |-> [u EXCEPT !.isCreatingCheckpoint = FALSE],
     pend |-> [pend EXCEPT !.create = IdleCreate],
     timers |-> timers,
     forked |-> h.forked,
     inBurst |-> h.inBurst]

\* The end of a loadCheckpoints invocation: the invocation is over and the
\* handler that awaited it goes on.
LoadEnds(l, done) ==
    LET next == IF loads[l].awaiter = "fork"
                THEN ForkResumes(done.ui)
                ELSE IF loads[l].awaiter = "create"
                THEN CreateResumes(done.ui)
                ELSE [ui |-> done.ui, pend |-> pend, timers |-> timers,
                      forked |-> h.forked, inBurst |-> h.inBurst]
    IN  /\ loads' = [loads EXCEPT ![l] = IdleLoad]
        /\ ui' = next.ui
        /\ pend' = next.pend
        /\ timers' = next.timers
        /\ h' = [(IF next.inBurst THEN h ELSE NoBurst(h)) EXCEPT
                    !.event = "loadEnds", !.load = done.summary,
                    !.forked = next.forked]

(***************************************************************************)
(* Timeline controller: actions                                            *)
(***************************************************************************)

\* The Timeline button: setIsOpen(true), then the effects that depend on
\* isOpen.
Open ==
    /\ ~ui.isOpen
    /\ ~TimerDue
    /\ HasFreeLoad
    /\ Len(pend.listen) < MaxListeners
    /\ LET opened == [ui EXCEPT !.isOpen = TRUE] IN
        /\ ui' = IF props.sessionId # "" THEN Loading(opened) ELSE opened
        /\ loads' = IF props.sessionId # ""
                    THEN [loads EXCEPT ![FreeLoad] = LoadStarted("none")]
                    ELSE loads
        /\ timers' = [timers EXCEPT !.debounce = DebounceRerun(opened)]
        /\ pend' = [pend EXCEPT !.listen = ListenRerun(opened, props.sessionId)]
    /\ h' = [NoBurst(h) EXCEPT !.event = "open"]
    /\ UNCHANGED <<props, time, api>>
    /\ UNCHANGED regVars

\* titorListCheckpoints resolves: the sort, then one diff request for each
\* checkpoint after the first.
ListReturns ==
    \E l \in 1..MaxLoads, result \in api.lists :
        /\ loads[l].phase = "list"
        /\ LET sorted == SortByMessageIndex(result)
               requests == DiffRequests(sorted)
               load == [loads[l] EXCEPT
                           !.phase = "diffs",
                           !.result = result,
                           !.sortedCheckpoints = sorted,
                           !.diffs = [k \in 1..Len(requests) |->
                               [request |-> requests[k], answer |-> DiffPending,
                                settled |-> 0]]]
           IN  IF Len(requests) = 0
               THEN LoadEnds(l, LoadResolved(load))
               ELSE /\ loads' = [loads EXCEPT ![l] = load]
                    /\ h' = [h EXCEPT !.event = "listReturns"]
                    /\ UNCHANGED <<ui, pend, timers>>
        /\ UNCHANGED <<props, time, api>>
        /\ UNCHANGED regVars

\* titorListCheckpoints rejects.
ListFails ==
    \E l \in 1..MaxLoads :
        /\ api.listFails
        /\ loads[l].phase = "list"
        /\ LoadEnds(l, LoadRejected(loads[l]))
        /\ UNCHANGED <<props, time, api>>
        /\ UNCHANGED regVars

\* The diff requests of a load that have settled.
Settled(load) ==
    Cardinality({k \in 1..Len(load.diffs) : load.diffs[k].answer.state # "pending"})

\* One titorDiffCheckpoints call settles, in any order (diffs[k].settled is
\* its rank among the settlements of the load); with the last one
\* Promise.all resolves.
DiffReturns ==
    \E l \in 1..MaxLoads :
        /\ loads[l].phase = "diffs"
        /\ \E k \in 1..Len(loads[l].diffs), answer \in api.diffs :
            /\ loads[l].diffs[k].answer.state = "pending"
            /\ LET load == [loads[l] EXCEPT !.diffs[k].answer = answer,
                                            !.diffs[k].settled = Settled(loads[l]) + 1] IN
                IF \A j \in 1..Len(load.diffs) : load.diffs[j].answer.state # "pending"
                THEN LoadEnds(l, LoadResolved(load))
                ELSE /\ loads' = [loads EXCEPT ![l] = load]
                     /\ h' = [h EXCEPT !.event = "diffReturns"]
                     /\ UNCHANGED <<ui, pend, timers>>
        /\ UNCHANGED <<props, time, api>>
        /\ UNCHANGED regVars

\* The dialog is dismissed: setIsOpen(false), then the cleanups of the
\* effects that depend on isOpen.
Close ==
    /\ ui.isOpen
    /\ ~TimerDue
    /\ ui' = [ui EXCEPT !.isOpen = FALSE]
    /\ timers' = [timers EXCEPT !.debounce = DebounceRerun(ui')]
    /\ pend' = [pend EXCEPT !.listen = ListenRerun(ui', props.sessionId)]
    /\ h' = [NoBurst(h) EXCEPT !.event = IF timers.debounce = {}
                                         THEN "close"
                                         ELSE "closeClearsTimer"]
    /\ UNCHANGED <<props, loads, time, api>>
    /\ UNCHANGED regVars

\* The parent renders the component with another currentMessageIndex: the
\* debounce effect runs again.
IndexUpdate ==
    \E index \in PropIndexes :
        /\ index # props.currentMessageIndex
        /\ ~TimerDue
        /\ props' = [props EXCEPT !.currentMessageIndex = index]
        /\ timers' = [timers EXCEPT !.debounce = DebounceRerun(ui)]
        /\ LET goesOn == h.inBurst /\ time - h.lastUpdate < DEBOUNCE_MS IN
            h' = [h EXCEPT
                    !.event = "indexUpdate",
                    !.inBurst = ui.isOpen,
                    !.several = goesOn,
                    !.lastUpdate = IF ui.isOpen THEN time ELSE 0,
                    !.hadCheckpoints = ui.isOpen /\ Len(ui.checkpoints) > 0,
                    !.debouncedLoads = IF goesOn THEN @ ELSE 0,
                    !.debouncedAt = IF goesOn THEN @ ELSE 0]
        /\ UNCHANGED <<ui, loads, pend, time, api>>
        /\ UNCHANGED regVars

\* Time passes, up to the next deadline.
Advance ==
    /\ time < MaxTicks * TICK_MS
    /\ ~TimerDue
    /\ time' = time + TICK_MS
    /\ h' = [h EXCEPT !.event = "advance"]
    /\ UNCHANGED <<props, ui, loads, pend, timers, api>>
    /\ UNCHANGED regVars

\* The callback of the debounce timer: loadCheckpoints().
DebounceFires ==
    \E at \in timers.debounce :
        /\ at <= time
        /\ HasFreeLoad
        /\ timers' = [timers EXCEPT !.debounce = @ \ {at}]
        /\ loads' = [loads EXCEPT ![FreeLoad] = LoadStarted("none")]
        /\ ui' = Loading(ui)
        /\ h' = [h EXCEPT !.event = "debounceFires",
                          !.debouncedLoads = IF h.inBurst THEN @ + 1 ELSE @,
                          !.debouncedAt = IF h.inBurst THEN time ELSE @]
        /\ UNCHANGED <<props, pend, time, api>>
        /\ UNCHANGED regVars

\* The branch button of a published checkpoint.
SelectCheckpoint ==
    \E j \in 1..Len(ui.checkpoints) :
        /\ ui.isOpen
        /\ ~ui.isLoading
        /\ ui.error = NULL
        /\ ~ui.isRestoring
        /\ ui' = [ui EXCEPT !.selectedCheckpoint = ui.checkpoints[j].checkpointId,
                            !.showForkDialog = TRUE]
        /\ h' = [h EXCEPT !.event = "selectCheckpoint"]
        /\ UNCHANGED <<props, loads, pend, timers, time, api>>
        /\ UNCHANGED regVars

\* The input of the fork dialog: setForkMessage(e.target.value).
SetForkMessage ==
    \E message \in ForkMessages :
        /\ ui.showForkDialog
        /\ ui' = [ui EXCEPT !.forkMessage = message]
        /\ h' = [h EXCEPT !.event = "setForkMessage"]
        /\ UNCHANGED <<props, loads, pend, timers, time, api>>
        /\ UNCHANGED regVars

\* The invocations of the create, fork, verify and diff handlers in flight.
OpsInFlight ==
    Cardinality({o \in {"fork", "create", "verify", "showDiff"} :
                    pend[o].phase # "idle"})

\* A guard that tests the description without trimming it.
ForkRefused_NoTrim == ui.selectedCheckpoint = NoCheckpoint \/ ui.forkMessage = <<>>

\* The guard of handleForkCheckpoint:
\* if (!selectedCheckpoint || !forkMessage.trim()) return.
ForkRefused == ui.selectedCheckpoint = NoCheckpoint \/ Trim(ui.forkMessage) = <<>>

\* handleForkCheckpoint up to its first await.
HandleForkCheckpoint ==
    /\ IF ForkRefused
       THEN UNCHANGED <<ui, pend>>
       ELSE /\ pend.fork.phase = "idle"
            /\ OpsInFlight < MaxOps
            /\ Len(h.forked) < MaxForks
            /\ ui' = [ui EXCEPT !.isRestoring = TRUE, !.error = NULL]
            /\ pend' = [pend EXCEPT !.fork =
                          [phase |-> "remote",
                           checkpointId |-> ui.selectedCheckpoint,
                           forkMessage |-> ui.forkMessage,
                           forkedCheckpointId |-> NoCheckpoint]]
    /\ h' = [h EXCEPT !.event = "handleForkCheckpoint"]
    /\ UNCHANGED <<props, loads, timers, time, api>>
    /\ UNCHANGED regVars

\* titorForkCheckpoint resolves with the new checkpoint id: the reload starts.
ForkReturns ==
    \E id \in api.forkIds :
        /\ pend.fork.phase = "remote"
        /\ HasFreeLoad
        /\ pend' = [pend EXCEPT !.fork.phase = "reload",
                                !.fork.forkedCheckpointId = id]
        /\ loads' = [loads EXCEPT ![FreeLoad] = LoadStarted("fork")]
        /\ ui' = Loading(ui)
        /\ h' = [h EXCEPT !.event = "forkReturns"]
        /\ UNCHANGED <<props, timers, time, api>>
        /\ UNCHANGED regVars

\* titorForkCheckpoint rejects.
ForkFails ==
    /\ pend.fork.phase = "remote"
    /\ pend' = [pend EXCEPT !.fork = IdleFork]
    /\ ui' = [ui EXCEPT !.error = "Failed to fork checkpoint", !.isRestoring = FALSE]
    /\ h' = [h EXCEPT !.event = "forkFails"]
    /\ UNCHANGED <<props, loads, timers, time, api>>
    /\ UNCHANGED regVars

\* The list of checkpoints is on display, with its buttons.
ListShown ==
    /\ ui.isOpen
    /\ ~ui.isLoading
    /\ ui.error = NULL
    /\ Len(ui.checkpoints) > 0

\* What the scroll area of the dialog holds: the spinner, the error message,
\* the "No file changes recorded yet" placeholder, or timelineContent.
ViewState ==
    IF ui.isLoading THEN "loading"
    ELSE IF ui.error # NULL THEN "error"
    ELSE IF Len(ui.checkpoints) = 0 THEN "empty"
    ELSE "timeline"

\* A current position indicator that is rendered when no checkpoint is at
\* or before the current message.
CurrentPositionShown_NoneAtOrBefore ==
    /\ ui.isOpen
    /\ ViewState = "timeline"
    /\ Len(ui.checkpoints) > 0
    /\ ~\E j \in 1..Len(ui.checkpoints) :
           ui.checkpoints[j].messageIndex <= props.currentMessageIndex

\* The "Current position" indicator is rendered: it is the last element of
\* timelineContent, under a condition of its own.
CurrentPositionShown ==
    /\ ui.isOpen
    /\ ViewState = "timeline"
    /\ Len(ui.checkpoints) > 0
    /\ ~\E j \in 1..Len(ui.checkpoints) :
           ui.checkpoints[j].messageIndex = props.currentMessageIndex

\* An isActive that only asks that the current message is at or after the
\* checkpoint.
IsActive_AtOrBefore(checkpoints, j, currentMessageIndex) ==
    checkpoints[j].messageIndex <= currentMessageIndex

\* isActive of the checkpoint at a place of the published sequence: the
\* current message is at or after it and before the next one.
IsActive(checkpoints, j, currentMessageIndex) ==
    /\ checkpoints[j].messageIndex <= currentMessageIndex
    /\ \/ j = Len(checkpoints)
       \/ checkpoints[j + 1].messageIndex > currentMessageIndex

\* A handler that passes the number of the message shown in the description
\* (currentMessageIndex + 1) as the index.
HandleCreateCheckpoint_Label ==
    /\ ui.isOpen
    /\ ~ui.isCreatingCheckpoint
    /\ ~ui.isLoading
    /\ pend.create.phase = "idle"
    /\ OpsInFlight < MaxOps
    /\ ui' = [ui EXCEPT !.isCreatingCheckpoint = TRUE, !.error = NULL]
    /\ pend' = [pend EXCEPT !.create =
                    [phase |-> "remote",
                     messageIndex |-> props.currentMessageIndex + 1]]
    /\ h' = [h EXCEPT !.event = "handleCreateCheckpoint"]
    /\ UNCHANGED <<props, loads, timers, time, api>>
    /\ UNCHANGED regVars

\* handleCreateCheckpoint up to its first await (the Save Current State
\* button).
HandleCreateCheckpoint ==
    /\ ui.isOpen
    /\ ~ui.isCreatingCheckpoint
    /\ ~ui.isLoading
    /\ pend.create.phase = "idle"
    /\ OpsInFlight < MaxOps
    /\ ui' = [ui EXCEPT !.isCreatingCheckpoint = TRUE, !.error = NULL]
    /\ pend' = [pend EXCEPT !.create =
                    [phase |-> "remote", messageIndex |-> props.currentMessageIndex]]
    /\ h' = [h EXCEPT !.event = "handleCreateCheckpoint"]
    /\ UNCHANGED <<props, loads, timers, time, api>>
    /\ UNCHANGED regVars

\* titorCheckpointMessage resolves: the reload starts.
CreateReturns ==
    /\ pend.create.phase = "remote"
    /\ HasFreeLoad
    /\ pend' = [pend EXCEPT !.create.phase = "reload"]
    /\ loads' = StartLoads(1, "create")
    /\ ui' = Loading(ui)
    /\ h' = [h EXCEPT !.event = "createReturns"]
    /\ UNCHANGED <<props, timers, time, api>>
    /\ UNCHANGED regVars

\* A catch block of handleCreateCheckpoint that only logs.
CreateFails_Silent ==
    /\ pend.create.phase = "remote"
    /\ pend' = [pend EXCEPT !.create = IdleCreate]
    /\ ui' = [ui EXCEPT !.isCreatingCheckpoint = FALSE]
    /\ h' = [h EXCEPT !.event = "createFails"]
    /\ UNCHANGED <<props, loads, timers, time, api>>
    /\ UNCHANGED regVars

\* titorCheckpointMessage rejects.
CreateFails ==
    /\ pend.create.phase = "remote"
    /\ pend' = [pend EXCEPT !.create = IdleCreate]
    /\ ui' = [ui EXCEPT !.error = "Failed to create checkpoint",
                        !.isCreatingCheckpoint = FALSE]
    /\ h' = [h EXCEPT !.event = "createFails"]
    /\ UNCHANGED <<props, loads, timers, time, api>>
    /\ UNCHANGED regVars

\* A handler that also reloads the checkpoints.
HandleRestoreCheckpoint_Reloads ==
    \E j \in 1..Len(ui.checkpoints) :
        /\ ListShown
        /\ ~ui.isRestoring
        /\ ~IsActive(ui.checkpoints, j, props.currentMessageIndex)
        /\ ~TimerDue
        /\ HasFreeLoad
        /\ ui' = Loading([ui EXCEPT !.isOpen = FALSE])
        /\ loads' = StartLoads(1, "none")
        /\ timers' = [timers EXCEPT !.debounce = DebounceRerun(ui')]
        /\ pend' = [pend EXCEPT !.listen = ListenRerun(ui', props.sessionId)]
        /\ h' = [NoBurst(h) EXCEPT !.event = "handleRestoreCheckpoint",
                                   !.restored = <<ui.checkpoints[j].checkpointId>>]
        /\ UNCHANGED <<props, time, api>>
        /\ UNCHANGED regVars

\* handleRestoreCheckpoint: the view closes, the effects of isOpen are
\* cleaned up, and the parent is told which checkpoint to restore.
HandleRestoreCheckpoint ==
    \E j \in 1..Len(ui.checkpoints) :
        /\ ListShown
        /\ ~ui.isRestoring
        /\ ~IsActive(ui.checkpoints, j, props.currentMessageIndex)
        /\ ~TimerDue
        /\ ui' = [ui EXCEPT !.isOpen = FALSE]
        /\ timers' = [timers EXCEPT !.debounce = DebounceRerun(ui')]
        /\ pend' = [pend EXCEPT !.listen = ListenRerun(ui', props.sessionId)]
        /\ h' = [NoBurst(h) EXCEPT !.event = "handleRestoreCheckpoint",
                                   !.restored = <<ui.checkpoints[j].checkpointId>>]
        /\ UNCHANGED <<props, loads, time, api>>
        /\ UNCHANGED regVars

\* handleVerifyCheckpoint up to its await.
HandleVerifyCheckpoint ==
    \E j \in 1..Len(ui.checkpoints) :
        /\ ListShown
        /\ pend.verify.phase = "idle"
        /\ OpsInFlight < MaxOps
        /\ pend' = [pend EXCEPT !.verify =
                        [phase |-> "remote",
                         checkpointId |-> ui.checkpoints[j].checkpointId]]
        /\ h' = [h EXCEPT !.event = "handleVerifyCheckpoint"]
        /\ UNCHANGED <<props, ui, loads, timers, time, api>>
        /\ UNCHANGED regVars

\* titorVerifyCheckpoint resolves: a valid checkpoint is marked verified in
\* the sequence published now, for VERIFY_RESET_MS; an invalid one is
\* reported.
VerifyReturns ==
    \E isValid \in BOOLEAN :
        /\ pend.verify.phase = "remote"
        /\ pend' = [pend EXCEPT !.verify = IdleVerify]
        /\ ui' = IF isValid
                 THEN [ui EXCEPT !.checkpoints =
                          [j \in 1..Len(@) |->
                              IF @[j].checkpointId = pend.verify.checkpointId
                              THEN [@[j] EXCEPT !.verified = TRUE]
                              ELSE @[j]]]
                 ELSE [ui EXCEPT !.error = "Checkpoint verification failed"]
        /\ timers' = IF isValid
                     THEN [timers EXCEPT !.verify =
                             @ \cup {[at |-> time + VERIFY_RESET_MS,
                                      checkpointId |-> pend.verify.checkpointId]}]
                     ELSE timers
        /\ h' = [h EXCEPT !.event = IF isValid THEN "verifyReturns" ELSE "verifyInvalid"]
        /\ UNCHANGED <<props, loads, time, api>>
        /\ UNCHANGED regVars

\* The callback of a timer of handleVerifyCheckpoint: the mark of its
\* checkpoint is taken back in the sequence published now.
VerifyResets ==
    \E timer \in timers.verify :
        /\ timer.at <= time
        /\ timers' = [timers EXCEPT !.verify = @ \ {timer}]
        /\ ui' = [ui EXCEPT !.checkpoints =
                    [j \in 1..Len(@) |->
                        IF @[j].checkpointId = timer.checkpointId
                        THEN [@[j] EXCEPT !.verified = FALSE]
                        ELSE @[j]]]
        /\ h' = [h EXCEPT !.event = "verifyResets"]
        /\ UNCHANGED <<props, loads, pend, time, api>>
        /\ UNCHANGED regVars

\* Time passes where verifications are timed, up to the next deadline.
Wait ==
    /\ time < MaxSeconds * VERIFY_TICK_MS
    /\ ~TimerDue
    /\ time' = time + VERIFY_TICK_MS
    /\ h' = [h EXCEPT !.event = "wait"]
    /\ UNCHANGED <<props, ui, loads, pend, timers, api>>
    /\ UNCHANGED regVars

\* A catch block of handleVerifyCheckpoint that also empties the published
\* sequence.
VerifyFails_Clears ==
    /\ pend.verify.phase = "remote"
    /\ pend' = [pend EXCEPT !.verify = IdleVerify]
    /\ ui' = [ui EXCEPT !.error = "Failed to verify checkpoint",
                        !.checkpoints = <<>>]
    /\ h' = [h EXCEPT !.event = "verifyFails"]
    /\ UNCHANGED <<props, loads, timers, time, api>>
    /\ UNCHANGED regVars

\* titorVerifyCheckpoint rejects.
VerifyFails ==
    /\ pend.verify.phase = "remote"
    /\ pend' = [pend EXCEPT !.verify = IdleVerify]
    /\ ui' = [ui EXCEPT !.error = "Failed to verify checkpoint"]
    /\ h' = [h EXCEPT !.event = "verifyFails"]
    /\ UNCHANGED <<props, loads, timers, time, api>>
    /\ UNCHANGED regVars

\* showDiff up to its await (the compare button of a checkpoint after the
\* first).
ShowDiff ==
    \E j \in 2..Len(ui.checkpoints) :
        /\ ListShown
        /\ ~ui.diffLoading
        /\ pend.showDiff.phase = "idle"
        /\ OpsInFlight < MaxOps
        /\ ui' = [ui EXCEPT !.diffLoading = TRUE,
                            !.diffFromCheckpoint = ui.checkpoints[j - 1].checkpointId,
                            !.diffToCheckpoint = ui.checkpoints[j].checkpointId,
                            !.showDiffDialog = TRUE]
        /\ pend' = [pend EXCEPT !.showDiff =
                        [phase |-> "remote",
                         fromCheckpointId |-> ui.checkpoints[j - 1].checkpointId,
                         toCheckpointId |-> ui.checkpoints[j].checkpointId,
                         contextLines |-> 3,
                         ignoreWhitespace |-> FALSE]]
        /\ h' = [h EXCEPT !.event = "showDiff"]
        /\ UNCHANGED <<props, loads, timers, time, api>>
        /\ UNCHANGED regVars

\* A failure that leaves the diff dialog open on the data it had.
ShowDiffFails_StaysOpen ==
    /\ pend.showDiff.phase = "remote"
    /\ pend' = [pend EXCEPT !.showDiff = IdleShowDiff]
    /\ ui' = [ui EXCEPT !.error = "Failed to load diff", !.diffLoading = FALSE]
    /\ h' = [h EXCEPT !.event = "showDiffFails"]
    /\ UNCHANGED <<props, loads, timers, time, api>>
    /\ UNCHANGED regVars

\* titorDiffCheckpointsDetailed resolves.
ShowDiffReturns ==
    /\ pend.showDiff.phase = "remote"
    /\ pend' = [pend EXCEPT !.showDiff = IdleShowDiff]
    /\ ui' = [ui EXCEPT !.diffData = DetailedDiff(pend.showDiff),
                        !.diffLoading = FALSE]
    /\ h' = [h EXCEPT !.event = "showDiffReturns"]
    /\ UNCHANGED <<props, loads, timers, time, api>>
    /\ UNCHANGED regVars

\* titorDiffCheckpointsDetailed rejects.
ShowDiffFails ==
    /\ pend.showDiff.phase = "remote"
    /\ pend' = [pend EXCEPT !.showDiff = IdleShowDiff]
    /\ ui' = [ui EXCEPT !.error = "Failed to load diff", !.showDiffDialog = FALSE,
                        !.diffLoading = FALSE]
    /\ h' = [h EXCEPT !.event = "showDiffFails"]
    /\ UNCHANGED <<props, loads, timers, time, api>>
    /\ UNCHANGED regVars

\* The diff dialog is dismissed.
CloseDiff ==
    /\ ui.showDiffDialog
    /\ ui' = [ui EXCEPT !.showDiffDialog = FALSE, !.diffData = NoDiffData,
                        !.diffFromCheckpoint = NoCheckpoint,
                        !.diffToCheckpoint = NoCheckpoint]
    /\ h' = [h EXCEPT !.event = "closeDiff"]
    /\ UNCHANGED <<props, loads, pend, timers, time, api>>
    /\ UNCHANGED regVars

\* The parent renders the component with another sessionId: the effects that
\* depend on sessionId run again.
SessionChange ==
    \E sessionId \in SessionIds :
        /\ sessionId # props.sessionId
        /\ ~TimerDue
        /\ ui.isOpen => HasFreeLoad /\ Len(ListenCleanup(pend.listen)) < MaxListeners
        /\ props' = [props EXCEPT !.sessionId = sessionId]
        /\ ui' = IF ui.isOpen THEN Loading(ui) ELSE ui
        /\ loads' = IF ui.isOpen THEN StartLoads(1, "none") ELSE loads
        /\ timers' = [timers EXCEPT !.debounce = DebounceRerun(ui)]
        /\ pend' = [pend EXCEPT !.listen = ListenRerun(ui, sessionId)]
        /\ h' = [NoBurst(h) EXCEPT !.event = IF timers.debounce = {}
                                             THEN "sessionChange"
                                             ELSE "sessionChangeClearsTimer"]
        /\ UNCHANGED <<time, api>>
        /\ UNCHANGED regVars

\* The promise of a listen() call resolves: .then((fn) => { unlisten = fn; }).
ListenResolves ==
    \E k \in 1..Len(pend.listen) :
        /\ pend.listen[k].state = "pending"
        /\ pend' = [pend EXCEPT !.listen[k].state = "registered"]
        /\ h' = [h EXCEPT !.event = "listenResolves"]
        /\ UNCHANGED <<props, ui, loads, timers, time, api>>
        /\ UNCHANGED regVars

\* The promise of a listen() call rejects: .catch logs the error.
ListenFails ==
    \E k \in 1..Len(pend.listen) :
        /\ pend.listen[k].state = "pending"
        /\ pend' = [pend EXCEPT !.listen =
                        SubSeq(@, 1, k - 1) \o SubSeq(@, k + 1, Len(@))]
        /\ h' = [h EXCEPT !.event = "listenFails"]
        /\ UNCHANGED <<props, ui, loads, timers, time, api>>
        /\ UNCHANGED regVars

\* A push handler that goes through the debounce timer.
Push_Debounced ==
    \E channel \in SessionIds :
        /\ Registered(channel) # {}
        /\ ~TimerDue
        /\ timers' = [timers EXCEPT !.debounce = {time + DEBOUNCE_MS}]
        /\ h' = [h EXCEPT !.event = "push"]
        /\ UNCHANGED <<props, ui, loads, pend, time, api>>
        /\ UNCHANGED regVars

\* The backend emits checkpoint-created:<channel>: every listener registered
\* on the channel runs its callback, loadCheckpoints().
Push ==
    \E channel \in SessionIds :
        /\ Registered(channel) # {}
        /\ ~TimerDue
        /\ Cardinality(Registered(channel)) <= Cardinality(IdleLoads)
        /\ loads' = StartLoads(Cardinality(Registered(channel)), "none")
        /\ ui' = Loading(ui)
        /\ h' = [h EXCEPT !.event = "push"]
        /\ UNCHANGED <<props, pend, timers, time, api>>
        /\ UNCHANGED regVars

\* The triggers of loadCheckpoints and the loads they start; the listen()
\* calls stay pending.
TriggerNext ==
    \/ Open
    \/ Close
    \/ IndexUpdate
    \/ Advance
    \/ DebounceFires
    \/ ListReturns
    \/ ListFails
    \/ DiffReturns

\* The fork dialog and the loads of the view it is used in; the listen()
\* calls stay pending.
ForkNext ==
    \/ Open
    \/ Close
    \/ ListReturns
    \/ ListFails
    \/ DiffReturns
    \/ SelectCheckpoint
    \/ SetForkMessage
    \/ HandleForkCheckpoint
    \/ ForkReturns
    \/ ForkFails

\* The handlers of the create, restore, verify and compare buttons, with the
\* remote calls they make and the loads of the view; the listen() calls stay
\* pending, and the fork dialog has its own specification.  Time does not
\* pass here, so the timers set by a verification stay pending.
OpsNext ==
    \/ Open
    \/ Close
    \/ ListReturns
    \/ ListFails
    \/ DiffReturns
    \/ HandleCreateCheckpoint
    \/ CreateReturns
    \/ CreateFails
    \/ HandleRestoreCheckpoint
    \/ HandleVerifyCheckpoint
    \/ VerifyReturns
    \/ VerifyFails
    \/ ShowDiff
    \/ ShowDiffReturns
    \/ ShowDiffFails
    \/ CloseDiff

\* The Save Current State button, with the loads of the view.
CreateNext ==
    \/ Open
    \/ Close
    \/ ListReturns
    \/ ListFails
    \/ DiffReturns
    \/ HandleCreateCheckpoint
    \/ CreateReturns
    \/ CreateFails

\* The view is opened and closed and every request of its loads settles.
TerminateNext ==
    \/ Open
    \/ Close
    \/ ListReturns
    \/ ListFails
    \/ DiffReturns

\* A request of the invocation of loadCheckpoints at place l settles.
RequestSettles(l) ==
    /\ ListReturns \/ ListFails \/ DiffReturns
    /\ loads'[l] # loads[l]

\* The restore button, with the loads of the view.
RestoreNext ==
    \/ Open
    \/ Close
    \/ ListReturns
    \/ ListFails
    \/ DiffReturns
    \/ HandleRestoreCheckpoint

\* The verify button, with its timers and the loads of the view.
VerifyNext ==
    \/ Open
    \/ Close
    \/ ListReturns
    \/ ListFails
    \/ DiffReturns
    \/ HandleVerifyCheckpoint
    \/ VerifyReturns
    \/ VerifyFails
    \/ VerifyResets
    \/ Wait

\* The compare button and the diff dialog, with the loads of the view.
DiffNext ==
    \/ Open
    \/ Close
    \/ ListReturns
    \/ ListFails
    \/ DiffReturns
    \/ ShowDiff
    \/ ShowDiffReturns
    \/ ShowDiffFails
    \/ CloseDiff

\* The push listener with the view, the session and the debounce timer.
PushNext ==
    \/ Open
    \/ Close
    \/ SessionChange
    \/ ListenResolves
    \/ ListenFails
    \/ Push
    \/ Advance
    \/ DebounceFires
    \/ ListReturns
    \/ ListFails
    \/ DiffReturns

LoadNext ==
    \/ Open
    \/ ListReturns
    \/ ListFails
    \/ DiffReturns

(***************************************************************************)
(* Specifications                                                          *)
(***************************************************************************)

\* The registry alone: the component stays as mounted.
NoApi ==
    [lists |-> {<<>>}, diffs |-> {DiffFailed}, listFails |-> FALSE, forkIds |-> {}]

RegIdle ==
    /\ store = AbsentBlob
    /\ now = 0
    /\ op = NoCall("init")
    /\ ret = NoRet
    /\ race = NoRace

RegistryInit == RegInit /\ Mounted(NoApi)

SpecRegistry == RegistryInit /\ [][RegNext]_vars

SpecKeepAlive == RegistryInit /\ [][KeepAliveNext]_vars

\* The store is empty when the clients start.
RaceInit == RegIdle /\ Mounted(NoApi)

SpecRace == RaceInit /\ [][RaceNext]_vars

\* One load of the timeline, over every answer of the API.
LoadInit ==
    /\ RegIdle
    /\ Mounted([lists |-> CheckpointLists(MaxCheckpoints), diffs |-> DiffAnswers,
                listFails |-> TRUE, forkIds |-> {}])

SpecLoad == LoadInit /\ [][LoadNext]_vars

\* One load of the timeline, over every answer of the API and every
\* currentMessageIndex the parent may pass.
ActiveInit ==
    /\ RegIdle
    /\ \E index \in MessageIndexes :
           MountedAt([lists |-> CheckpointLists(MaxCheckpoints),
                      diffs |-> {DiffFailed, Diff(<<"a">>, <<>>, <<>>)},
                      listFails |-> TRUE, forkIds |-> {}], index)

SpecActive == ActiveInit /\ [][LoadNext]_vars

\* The controller over a few answers of the API: no checkpoint, or two of
\* which the second may have no change.
TimelineInit ==
    /\ RegIdle
    /\ Mounted([lists |-> {<<>>,
                           <<CheckpointInfo(1, 1, 5), CheckpointInfo(2, 0, 5)>>},
                diffs |-> {DiffFailed, Diff(<<"a">>, <<>>, <<>>)},
                listFails |-> TRUE,
                forkIds |-> {MaxCheckpoints + 1}])

\* The view is opened and closed, the parent moves currentMessageIndex, and
\* time passes.
SpecTrigger == TimelineInit /\ [][TriggerNext]_vars

\* The view is opened and closed and the user forks checkpoints.
SpecFork == TimelineInit /\ [][ForkNext]_vars

\* The controller over one answer of the API and its failure: two
\* checkpoints, both with changes.
ReloadInit ==
    /\ RegIdle
    /\ Mounted([lists |-> {<<CheckpointInfo(1, 1, 5), CheckpointInfo(2, 0, 5)>>},
                diffs |-> {Diff(<<"a">>, <<>>, <<>>)},
                listFails |-> TRUE,
                forkIds |-> {}])

\* The controller mounted at any message, over the answers of TimelineInit.
CreateInit ==
    /\ RegIdle
    /\ \E index \in PropIndexes :
          MountedAt([lists |-> {<<>>,
                               <<CheckpointInfo(1, 1, 5), CheckpointInfo(2, 0, 5)>>},
                     diffs |-> {DiffFailed, Diff(<<"a">>, <<>>, <<>>)},
                     listFails |-> TRUE,
                     forkIds |-> {}],
                    index)

\* One load of the timeline of a conversation of one message, over every
\* such message; the API answers with a checkpoint at that message and one
\* after the end of the conversation.
ExtractInit ==
    /\ RegIdle
    /\ \E message \in StreamMessages :
           MountedWith([lists |-> {<<CheckpointInfo(1, 0, 5), CheckpointInfo(2, 1, 5)>>},
                        diffs |-> {Diff(<<"a">>, <<>>, <<>>)},
                        listFails |-> TRUE, forkIds |-> {}],
                       0, <<message>>)

SpecExtract == ExtractInit /\ [][LoadNext]_vars

\* The loads of the view when every external call eventually returns or
\* fails: a request that stays pending is eventually answered.
SpecTerminate ==
    /\ CreateInit
    /\ [][TerminateNext]_vars
    /\ \A l \in 1..MaxLoads : WF_vars(RequestSettles(l))

\* The view is opened and closed and the user saves the current state.
SpecCreate == CreateInit /\ [][CreateNext]_vars

\* The view is opened and closed and the user restores checkpoints.
SpecRestore == CreateInit /\ [][RestoreNext]_vars

\* The view is opened and closed, the user verifies checkpoints, and time
\* passes.
SpecVerify == ReloadInit /\ [][VerifyNext]_vars

\* The controller over three checkpoints, all with changes: two pairs to
\* compare.
DiffInit ==
    /\ RegIdle
    /\ Mounted([lists |-> {<<CheckpointInfo(1, 0, 5), CheckpointInfo(2, 1, 5),
                             CheckpointInfo(3, 2, 5)>>},
                diffs |-> {Diff(<<"a">>, <<>>, <<>>)},
                listFails |-> TRUE,
                forkIds |-> {}])

\* The view is opened and closed and the user compares checkpoints.
SpecDiff == DiffInit /\ [][DiffNext]_vars

\* The view is opened and closed and the user presses its buttons.
SpecOps == ReloadInit /\ [][OpsNext]_vars

\* The view is opened and closed, the session changes, listen() calls settle
\* and the backend emits events.
SpecPush == ReloadInit /\ [][PushNext]_vars


(***************************************************************************)
(* Session registry: properties                                            *)
(***************************************************************************)

HasSession(v, id) == v.kind = "object" /\ v.map[id].kind = "session"

\* now - S.timestamp for the session stored under id in object v.
Age(v, id, t) == t - v.map[id].timestamp

\* The raw store held a session under the call's id, of age at least the
\* expiry when the call was made, and localStorage worked.
ExpiredGet ==
    /\ op.name = "getSession"
    /\ op.fail = "none"
    /\ HasSession(RawRead(op.pre), op.id)
    /\ Age(RawRead(op.pre), op.id, op.t0) >= SESSION_EXPIRY_MS

\* C1: once now - S.timestamp >= 24h, getSession(S.id) returns null and the
\* raw store read afterwards holds no entry for S.id.
C1_ExpiredGetReturnsNullAndRemoves ==
    ExpiredGet => (ret.one = NullEntry /\ ~HasKey(RawRead(store), op.id))

\* C2: the mapping getAllSessions() returns holds no entry whose age exceeds
\* the expiry.
C2_GetAllReturnsNoExpired ==
    op.name = "getAllSessions" =>
        \A id \in Ids :
            HasSession(ret.all, id) => Age(ret.all, id, op.t0) <= SESSION_EXPIRY_MS

\* getAllSessions() was called on a raw store holding an expired session and
\* another one, and returned only the other one.
C2_Witness ==
    /\ op.name = "getAllSessions"
    /\ \E id, other \in Ids :
        /\ HasSession(RawRead(op.pre), id)
        /\ Age(RawRead(op.pre), id, op.t0) > SESSION_EXPIRY_MS
        /\ ~HasKey(ret.all, id)
        /\ HasSession(ret.all, other)

GetRightAfterSave ==
    /\ op.name = "saveSession"
    /\ op.fail = "none"
    /\ op'.name = "getSession"
    /\ op'.fail = "none"
    /\ op'.id = op.id

\* C4 as stated: saveSession(id, projectPath, messages) followed at once by
\* getSession(id) returns the same sessionId, projectPath and messages, with
\* the timestamp of the save, for every messages array and every store.
C4_RoundTripAnyInput ==
    [][GetRightAfterSave =>
          ret'.one = StoredSession(op.id, op.projectPath, op.messages, op.t)]_vars

\* JSON.stringify followed by JSON.parse gives the messages back unchanged.
JSONSafe(ms) == ~HasCycle(ms) /\ StringifyMessages(ms) = ms

\* The stored text is absent, not JSON, or the JSON text of an object.
ObjectOrUnreadable(blob) == blob.kind = "json" => blob.value.kind = "object"

\* C4 amended: the round trip holds when the messages are values JSON writes
\* and reads back unchanged and the stored text is absent, unparseable or a
\* JSON object.
C4_RoundTrip ==
    [][(GetRightAfterSave /\ JSONSafe(op.messages) /\ ObjectOrUnreadable(op.pre)) =>
          ret'.one = StoredSession(op.id, op.projectPath, op.messages, op.t)]_vars

\* C4 happens: getSession returned a session whose timestamp is the instant
\* of the call, so the clock has not moved since it was saved.
C4_Witness ==
    /\ op.name = "getSession"
    /\ ret.one.kind = "session"
    /\ ret.one.timestamp = op.t0
    /\ ret.one.messages = <<"m1">>
    /\ op.t0 > 0


\* C13: no operation of sessionStorage throws to its caller, whatever the
\* stored text (absent, not JSON, JSON that is no mapping, null entries) and
\* whether or not localStorage fails on reading or writing.
C13_NeverThrows == ~ret.threw

\* C13 happens: getActiveSessions, the one operation with no try block, has
\* returned from a call made over a stored object with a null entry.
C13_Witness ==
    /\ op.name = "getActiveSessions"
    /\ op.fail = "none"
    /\ op.pre.kind = "json"
    /\ op.pre.value.kind = "object"
    /\ \E id \in Ids : op.pre.value.map[id].kind = "null"
    /\ ~ret.threw
    /\ ret.active = {}

(***************************************************************************)
(* Timeline controller: properties of a load                               *)
(***************************************************************************)

Total(checkpoint) ==
    checkpoint.filesChanged.added + checkpoint.filesChanged.modified
        + checkpoint.filesChanged.deleted

\* C5 as stated: the published sequence is strictly ascending by
\* messageIndex, also when the API returns equal messageIndex values.
C5_StrictlyAscending ==
    \A i \in 1..(Len(ui.checkpoints) - 1) :
        ui.checkpoints[i].messageIndex < ui.checkpoints[i + 1].messageIndex

\* C5 amended: the published sequence is ascending by messageIndex, and
\* published checkpoints of equal messageIndex are adjacent and keep the order
\* in which the API returned them (checkpointId is the place in the answer).
C5_Ascending ==
    \A i \in 1..(Len(ui.checkpoints) - 1) :
        \/ ui.checkpoints[i].messageIndex < ui.checkpoints[i + 1].messageIndex
        \/ /\ ui.checkpoints[i].messageIndex = ui.checkpoints[i + 1].messageIndex
           /\ ui.checkpoints[i].checkpointId < ui.checkpoints[i + 1].checkpointId

\* A load published three checkpoints, two of them of equal messageIndex,
\* from an answer whose last checkpoint has the lowest messageIndex.
C5_Witness ==
    /\ h.load.outcome = "ok"
    /\ Len(ui.checkpoints) = 3
    /\ ui.checkpoints[1].checkpointId = 3
    /\ ui.checkpoints[2].messageIndex = ui.checkpoints[3].messageIndex

\* The checkpoint at a place of enhancedCheckpoints has the lowest
\* messageIndex of the API's answer.
IsLowest(load, place) ==
    \A k \in 1..Len(load.result) :
        load.enhancedCheckpoints[place].messageIndex <= load.result[k].messageIndex

\* C6: the checkpoint first in sorted order is enriched with filesChanged =
\* {added: fileCount, modified: 0, deleted: 0} and empty detailed lists, and
\* no diff request is issued for it.
C6_FirstCheckpoint ==
    (h.load.outcome = "ok" /\ Len(h.load.result) > 0) =>
        LET first == h.load.enhancedCheckpoints[1] IN
        /\ IsLowest(h.load, 1)
        /\ first.filesChanged =
              [defined |-> TRUE, added |-> first.fileCount, modified |-> 0, deleted |-> 0]
        /\ first.detailedFileChanges =
              [defined |-> TRUE, added |-> <<>>, modified |-> <<>>, deleted |-> <<>>]
        /\ \A k \in 1..Len(h.load.diffs) :
              h.load.diffs[k].request.to # first.checkpointId

\* A load of three checkpoints whose first in sorted order is the second of
\* the answer and has six files; it is published with added = 6.
C6_Witness ==
    /\ h.load.outcome = "ok"
    /\ Len(h.load.result) = 3
    /\ h.load.enhancedCheckpoints[1].checkpointId = 2
    /\ h.load.enhancedCheckpoints[1].fileCount = 6
    /\ Len(ui.checkpoints) > 0
    /\ ui.checkpoints[1].checkpointId = 2
    /\ ui.checkpoints[1].filesChanged.added = 6

\* The diff requests issued whose `to` is the checkpoint at a place of the
\* sorted array.
RequestsFor(diffs, sorted, place) ==
    {k \in 1..Len(diffs) : diffs[k].request.to = sorted[place].checkpointId}

\* C7: for each sorted place after the first exactly one diff request is
\* issued, from the checkpoint at the place before to the one at this place,
\* and the filesChanged counts are the lengths of the three lists of its
\* answer.
C7_IncrementalDiff ==
    /\ \A l \in 1..MaxLoads :
          loads[l].phase = "diffs" =>
              \A place \in 2..Len(loads[l].sortedCheckpoints) :
                  \E k \in 1..Len(loads[l].diffs) :
                      /\ RequestsFor(loads[l].diffs, loads[l].sortedCheckpoints, place) = {k}
                      /\ loads[l].diffs[k].request.from =
                            loads[l].sortedCheckpoints[place - 1].checkpointId
    /\ h.load.outcome = "ok" =>
          /\ Len(h.load.diffs) = Len(h.load.result) - (IF h.load.result = <<>> THEN 0 ELSE 1)
          /\ \A place \in 2..Len(h.load.sortedCheckpoints) :
              \E k \in 1..Len(h.load.diffs) :
                  LET answer == h.load.diffs[k].answer
                      changed == h.load.enhancedCheckpoints[place].filesChanged
                  IN
                  /\ RequestsFor(h.load.diffs, h.load.sortedCheckpoints, place) = {k}
                  /\ h.load.diffs[k].request.from =
                        h.load.sortedCheckpoints[place - 1].checkpointId
                  /\ answer.state = "ok" =>
                        changed = [defined |-> TRUE,
                                   added |-> Len(answer.addedFiles),
                                   modified |-> Len(answer.modifiedFiles),
                                   deleted |-> Len(answer.deletedFiles)]

\* The load of the claim's example: diff(c0, c1) = {added: [a]} and
\* diff(c1, c2) = {added: [b], deleted: [a]}; c2 is published with added 1,
\* deleted 1.
C7_Witness ==
    /\ h.load.outcome = "ok"
    /\ Len(h.load.diffs) = 2
    /\ h.load.diffs[1].answer = Diff(<<"a">>, <<>>, <<>>)
    /\ h.load.diffs[2].answer = Diff(<<"b">>, <<>>, <<"a">>)
    /\ h.load.diffs[2].request.to = h.load.enhancedCheckpoints[3].checkpointId
    /\ Len(ui.checkpoints) = 3
    /\ ui.checkpoints[3].filesChanged =
          [defined |-> TRUE, added |-> 1, modified |-> 0, deleted |-> 1]

Published(checkpointId) ==
    \E j \in 1..Len(ui.checkpoints) : ui.checkpoints[j].checkpointId = checkpointId

\* C8: after a successful load a checkpoint of the API's answer is published
\* iff its enrichment has added + modified + deleted > 0; every published
\* checkpoint has defined filesChanged with a positive total.
C8_ZeroChangeFiltering ==
    /\ \A j \in 1..Len(ui.checkpoints) :
          ui.checkpoints[j].filesChanged.defined /\ Total(ui.checkpoints[j]) > 0
    /\ (h.event = "loadEnds" /\ h.load.outcome = "ok") =>
          /\ Len(h.load.enhancedCheckpoints) = Len(h.load.result)
          /\ \A i \in 1..Len(h.load.enhancedCheckpoints) :
              LET e == h.load.enhancedCheckpoints[i] IN
              /\ \E k \in 1..Len(h.load.result) :
                    h.load.result[k].checkpointId = e.checkpointId
              /\ Published(e.checkpointId) <=> (e.filesChanged.defined /\ Total(e) > 0)

\* A successful load of three checkpoints that publishes only the last: the
\* first has no files and the diff of the second failed.
C8_Witness ==
    /\ h.load.outcome = "ok"
    /\ Len(h.load.result) = 3
    /\ h.load.enhancedCheckpoints[1].fileCount = 0
    /\ h.load.diffs[1].answer.state = "failed"
    /\ Len(ui.checkpoints) = 1
    /\ ui.checkpoints[1].checkpointId = h.load.enhancedCheckpoints[3].checkpointId

(***************************************************************************)
(* Fork handler                                                            *)
(***************************************************************************)

\* The description is empty or holds white space only.
BlankDescription == \A k \in 1..Len(ui.forkMessage) : ui.forkMessage[k] = " "

\* C9: handleForkCheckpoint called with an empty or white-space-only
\* description, or with no checkpoint selected, issues no remote fork call,
\* starts no reload, does not call onForkCheckpoint and leaves the state of
\* the controller as it was.
C9_RefusedForkDoesNothing ==
    [][(/\ h'.event = "handleForkCheckpoint"
        /\ (ui.selectedCheckpoint = NoCheckpoint \/ BlankDescription))
       => /\ pend' = pend
          /\ loads' = loads
          /\ h'.forked = h.forked
          /\ ui' = ui
          /\ timers' = timers
          /\ props' = props]_vars

\* C9 happens: the handler has just returned from a call made with a
\* checkpoint selected and a description of white space, and nothing is in
\* flight.
C9_Witness ==
    /\ h.event = "handleForkCheckpoint"
    /\ ui.selectedCheckpoint # NoCheckpoint
    /\ ui.forkMessage = <<" ">>
    /\ pend.fork.phase = "idle"
    /\ ~ui.isRestoring

(***************************************************************************)
(* Debounce                                                                *)
(***************************************************************************)

\* The deadline of the burst's last update has passed and its timer, if
\* there was one, has run.
BurstSettled ==
    \/ time > h.lastUpdate + DEBOUNCE_MS
    \/ time = h.lastUpdate + DEBOUNCE_MS /\ timers.debounce = {}

\* What holds of every burst: no load before the last update's deadline, at
\* most one load, and that one at the deadline.
BurstLoadsLate ==
    /\ time < h.lastUpdate + DEBOUNCE_MS => h.debouncedLoads = 0
    /\ h.debouncedLoads <= 1
    /\ h.debouncedLoads = 1 => h.debouncedAt = h.lastUpdate + DEBOUNCE_MS

\* C10 as stated: while the view is open, a burst of currentMessageIndex
\* updates, each less than 500 ms after the one before, triggers exactly one
\* load, 500 ms after the last update, and none before.
C10_BurstTriggersOneLoad ==
    h.inBurst =>
        /\ ui.isOpen
        /\ BurstLoadsLate
        /\ BurstSettled => h.debouncedLoads = 1

\* C10 as the code has it: the burst triggers exactly one load, 500 ms after
\* the last update, if checkpoints were published when the last update was
\* rendered, and no load if none was; no load is triggered before.
C10_Debounce ==
    h.inBurst =>
        /\ ui.isOpen
        /\ BurstLoadsLate
        /\ BurstSettled => h.debouncedLoads = (IF h.hadCheckpoints THEN 1 ELSE 0)

\* C10 happens: a burst of several updates has been answered by its one
\* load, 500 ms after the last of them.
C10_Witness ==
    /\ h.inBurst
    /\ h.several
    /\ h.hadCheckpoints
    /\ h.debouncedLoads = 1
    /\ h.debouncedAt = h.lastUpdate + DEBOUNCE_MS
    /\ h.lastUpdate > 0

(***************************************************************************)
(* Push listener                                                           *)
(***************************************************************************)

\* The loadCheckpoints invocations a step starts.
LoadsStarted ==
    {l \in 1..MaxLoads : loads[l].phase = "idle" /\ loads'[l].phase = "list"}

\* C11: an event on checkpoint-created:<sessionId> received while the view is
\* open starts a load in the same step, whether or not a debounce timer is
\* pending, and leaves the pending timer and its deadline as they are.
C11_PushLoadsAtOnce ==
    [][(h'.event = "push" /\ ui.isOpen)
       => /\ LoadsStarted # {}
          /\ ui'.isLoading
          /\ timers' = timers
          /\ time' = time]_vars

\* C11 happens: the event has just been received with the view open and a
\* debounce timer pending, which is pending still, and a load is awaiting
\* its list.
C11_Witness ==
    /\ h.event = "push"
    /\ ui.isOpen
    /\ timers.debounce # {}
    /\ \A at \in timers.debounce : at > time
    /\ Registered(props.sessionId) # {}
    /\ \E l \in 1..MaxLoads : loads[l].phase = "list"

\* C12: at most one listener is registered while the view is open, and none
\* once the view is closed, whatever the order of open, close, session change
\* and the settling of the listen() calls.
C12_ListenerLifecycle ==
    LET registered == {k \in 1..Len(pend.listen) : pend.listen[k].state = "registered"}
    IN  /\ ui.isOpen => Cardinality(registered) <= 1
        /\ ~ui.isOpen => registered = {}

(***************************************************************************)
(* Properties of the handlers                                              *)
(***************************************************************************)

NoLoadInFlight == \A l \in 1..MaxLoads : loads[l].phase = "idle"

\* C15: last completion wins.  Once every load in flight has completed, the
\* published state is the outcome of the load that completed last: if it
\* succeeded, the published checkpoints are its filtered result and error
\* is null; if it failed, error is the load-failure message.
C15_LastCompletionWins ==
    (NoLoadInFlight /\ h.load.outcome # "none") =>
        IF h.load.outcome = "ok"
        THEN ui.checkpoints = h.load.published /\ ui.error = NULL
        ELSE ui.error = "Failed to load checkpoints"

\* The load-failure message is on display before the step and not after it.
LoadFailureLeaves ==
    /\ ui.error = "Failed to load checkpoints"
    /\ ui'.error # "Failed to load checkpoints"

\* C16 as stated: a load whose list request fails sets the load-failure
\* message and leaves the published sequence as it was, and the message
\* stays until the next load starts.
C16_FailedUntilNextLoad ==
    [][/\ (h'.event = "loadEnds" /\ h'.load.outcome = "failed") =>
            /\ ui'.error = "Failed to load checkpoints"
            /\ ui'.checkpoints = ui.checkpoints
       /\ LoadFailureLeaves => LoadsStarted # {}]_vars

\* C16: a load whose list request fails sets the load-failure message and
\* leaves the published sequence as it was; the message stays until a load
\* starts, until handleCreateCheckpoint or handleForkCheckpoint starts (both
\* clear error before their remote call), or until the failure of a create,
\* fork, verify or compare request in flight replaces it with its own
\* message.
C16_FailedUntilCleared ==
    [][/\ (h'.event = "loadEnds" /\ h'.load.outcome = "failed") =>
            /\ ui'.error = "Failed to load checkpoints"
            /\ ui'.checkpoints = ui.checkpoints
       /\ LoadFailureLeaves =>
            \/ LoadsStarted # {} /\ ui'.error = NULL
            \/ h'.event \in {"handleCreateCheckpoint", "handleForkCheckpoint"}
                    /\ ui'.error = NULL
            \/ h'.event \in {"createFails", "forkFails", "verifyFails",
                             "verifyInvalid", "showDiffFails"}
                    /\ ui'.error # NULL]_vars

\* A load has failed over checkpoints published by an earlier load.
C16_Witness ==
    /\ h.event = "loadEnds"
    /\ h.load.outcome = "failed"
    /\ ui.error = "Failed to load checkpoints"
    /\ Len(ui.checkpoints) > 0

(***************************************************************************)
(* Properties of the diff requests of one load                             *)
(***************************************************************************)

\* The sorted places of a finished load whose diff request was rejected.
FailedPlaces(load) ==
    {place \in 2..Len(load.sortedCheckpoints) : AnswerAt(load, place).state = "failed"}

\* A sequence without the element at a place.
Without(seq, place) ==
    [j \in 1..(Len(seq) - 1) |-> IF j < place THEN seq[j] ELSE seq[j + 1]]

\* What the load would have made of its answers had the diff request of a
\* place been answered with `answer`.
EnhancedWith(load, place, answer) ==
    EnhancedCheckpoints(load.sortedCheckpoints,
        [i \in 1..Len(load.sortedCheckpoints) |->
            IF i = place THEN answer ELSE AnswerAt(load, i)])

\* C17: a rejected diff request is never fatal.  A load in which the diff
\* request of sorted place i was rejected ends successfully with error
\* null; checkpoint i is not published; every other checkpoint has the
\* enrichment it has when that request is answered instead, so the
\* published sequence is the one of that case without checkpoint i; and
\* the request of place i + 1 goes from checkpoint i.
C17_PartialDiffFailure ==
    (h.event = "loadEnds"
        /\ \E k \in 1..Len(h.load.diffs) : h.load.diffs[k].answer.state = "failed") =>
        /\ h.load.outcome = "ok"
        /\ ui.error = NULL
        /\ ~ui.isLoading
        /\ ui.checkpoints = h.load.published
        /\ \A i \in FailedPlaces(h.load) :
            /\ ~Published(h.load.sortedCheckpoints[i].checkpointId)
            /\ i < Len(h.load.sortedCheckpoints) =>
                  h.load.diffs[i].request =
                      [from |-> h.load.sortedCheckpoints[i].checkpointId,
                       to |-> h.load.sortedCheckpoints[i + 1].checkpointId]
            /\ \A answer \in DiffAnswers \ {DiffFailed} :
                  LET other == EnhancedWith(h.load, i, answer) IN
                  /\ \A j \in 1..Len(other) :
                        j # i => h.load.enhancedCheckpoints[j] = other[j]
                  /\ ui.checkpoints = CheckpointsWithFileChanges(Without(other, i))

\* A load of three checkpoints in which the diff request of the second was
\* rejected: the first and the third are published, the third with the
\* counts of its diff against the second.
C17_Witness ==
    /\ h.event = "loadEnds"
    /\ h.load.outcome = "ok"
    /\ Len(h.load.sortedCheckpoints) = 3
    /\ h.load.diffs[1].answer = DiffFailed
    /\ h.load.diffs[2].answer = Diff(<<"b">>, <<>>, <<"a">>)
    /\ h.load.diffs[2].request.from = h.load.sortedCheckpoints[2].checkpointId
    /\ ui.error = NULL
    /\ Len(ui.checkpoints) = 2
    /\ ui.checkpoints[1].checkpointId = h.load.sortedCheckpoints[1].checkpointId
    /\ ui.checkpoints[2].checkpointId = h.load.sortedCheckpoints[3].checkpointId
    /\ ui.checkpoints[2].filesChanged =
          [defined |-> TRUE, added |-> 1, modified |-> 0, deleted |-> 1]

\* The place of a checkpoint in the sorted array of a load.
PlaceOf(load, checkpointId) ==
    CHOOSE place \in 1..Len(load.sortedCheckpoints) :
        load.sortedCheckpoints[place].checkpointId = checkpointId

\* C18: whatever the order in which the diff requests of a load settle, the
\* published checkpoints are in the order of the sorted array, and each one
\* after the first place carries the answer to the request from the
\* checkpoint before it in the sorted array to itself.
C18_OrderOfDiffsIrrelevant ==
    (h.event = "loadEnds" /\ h.load.outcome = "ok") =>
        /\ \A j \in 1..(Len(ui.checkpoints) - 1) :
              PlaceOf(h.load, ui.checkpoints[j].checkpointId)
                  < PlaceOf(h.load, ui.checkpoints[j + 1].checkpointId)
        /\ \A j \in 1..Len(ui.checkpoints) :
              LET place == PlaceOf(h.load, ui.checkpoints[j].checkpointId) IN
              place > 1 =>
                  \E k \in 1..Len(h.load.diffs) :
                      /\ h.load.diffs[k].request =
                            [from |-> h.load.sortedCheckpoints[place - 1].checkpointId,
                             to |-> ui.checkpoints[j].checkpointId]
                      /\ ui.checkpoints[j].detailedFileChanges =
                            [defined |-> TRUE,
                             added |-> h.load.diffs[k].answer.addedFiles,
                             modified |-> h.load.diffs[k].answer.modifiedFiles,
                             deleted |-> h.load.diffs[k].answer.deletedFiles]
                      /\ ui.checkpoints[j].filesChanged =
                            [defined |-> TRUE,
                             added |-> Len(h.load.diffs[k].answer.addedFiles),
                             modified |-> Len(h.load.diffs[k].answer.modifiedFiles),
                             deleted |-> Len(h.load.diffs[k].answer.deletedFiles)]

\* A load of three checkpoints whose second diff request settled before the
\* first, with different answers; all three are published.
C18_Witness ==
    /\ h.event = "loadEnds"
    /\ h.load.outcome = "ok"
    /\ Len(h.load.diffs) = 2
    /\ h.load.diffs[2].settled = 1
    /\ h.load.diffs[1].settled = 2
    /\ h.load.diffs[1].answer = Diff(<<"a">>, <<>>, <<>>)
    /\ h.load.diffs[2].answer = Diff(<<>>, <<"a", "b">>, <<>>)
    /\ Len(ui.checkpoints) = 3
    /\ ui.checkpoints[3].filesChanged =
          [defined |-> TRUE, added |-> 0, modified |-> 2, deleted |-> 0]

(***************************************************************************)
(* Properties of handleCreateCheckpoint                                    *)
(***************************************************************************)

\* C19 as stated: every invocation of handleCreateCheckpoint is followed by
\* a load, issued when its remote call settles.
C19_AlwaysReloads ==
    [][(pend.create.phase = "remote" /\ pend'.create.phase # "remote")
            => LoadsStarted # {}]_vars

\* C19: handleCreateCheckpoint calls titorCheckpointMessage with the current
\* message index and starts no load before the call settles; when the call
\* resolves it starts one load and awaits it; when the call rejects it
\* starts no load and sets its error; isCreatingCheckpoint is true exactly
\* from the start of the handler until the awaited load has ended or the
\* call has been rejected.
C19_CreateThenReload ==
    [][/\ ui'.isCreatingCheckpoint <=> pend'.create.phase # "idle"
       /\ h'.event = "handleCreateCheckpoint" =>
            /\ pend'.create = [phase |-> "remote",
                               messageIndex |-> props.currentMessageIndex]
            /\ LoadsStarted = {}
       /\ (pend.create.phase = "remote" /\ h'.event = "createReturns") =>
            /\ Cardinality(LoadsStarted) = 1
            /\ \A l \in LoadsStarted : loads'[l].awaiter = "create"
            /\ pend'.create.phase = "reload"
       /\ (pend.create.phase = "remote" /\ h'.event = "createFails") =>
            /\ LoadsStarted = {}
            /\ ui'.error = "Failed to create checkpoint"
            /\ pend'.create.phase = "idle"
       /\ (pend.create.phase = "reload" /\ pend'.create.phase # "reload") =>
            /\ h'.event = "loadEnds"
            /\ h'.load.awaiter = "create"
            /\ pend'.create.phase = "idle"]_vars

\* A checkpoint was saved at message 1 and the reload has just ended.
C19_Witness ==
    /\ h.event = "loadEnds"
    /\ h.load.awaiter = "create"
    /\ h.load.outcome = "ok"
    /\ props.currentMessageIndex = 1
    /\ ~ui.isCreatingCheckpoint
    /\ pend.create.phase = "idle"

(***************************************************************************)
(* Properties of a fork that goes through                                  *)
(***************************************************************************)

\* The step calls onForkCheckpoint.
ForkCallback == h'.forked # h.forked

\* C20: a fork that goes through keeps this order.  The handler holds the
\* selected checkpoint and the description entered; when titorForkCheckpoint
\* returns the new id the reload starts and no callback is made yet; when
\* that reload ends, successfully or not, the view and the fork dialog are
\* closed and onForkCheckpoint is called once, with the new id and the
\* description the handler was called with, which is not blank.  No other
\* step calls onForkCheckpoint; a rejection of the remote call starts no
\* load and ends the handler.
C20_ForkOrder ==
    [][/\ (h'.event = "handleForkCheckpoint" /\ pend'.fork # pend.fork) =>
            /\ pend'.fork = [phase |-> "remote",
                             checkpointId |-> ui.selectedCheckpoint,
                             forkMessage |-> ui.forkMessage,
                             forkedCheckpointId |-> NoCheckpoint]
            /\ ~ForkCallback
       /\ h'.event = "forkReturns" =>
            /\ pend.fork.phase = "remote"
            /\ pend'.fork.phase = "reload"
            /\ pend'.fork.forkedCheckpointId \in api.forkIds
            /\ pend'.fork.forkMessage = pend.fork.forkMessage
            /\ Cardinality(LoadsStarted) = 1
            /\ \A l \in LoadsStarted : loads'[l].awaiter = "fork"
            /\ ~ForkCallback
       /\ h'.event = "forkFails" =>
            /\ ~ForkCallback
            /\ LoadsStarted = {}
            /\ pend'.fork.phase = "idle"
       /\ ForkCallback <=>
            (h'.event = "loadEnds" /\ h'.load.awaiter = "fork")
       /\ ForkCallback =>
            /\ pend.fork.phase = "reload"
            /\ pend'.fork.phase = "idle"
            /\ h'.forked = Append(h.forked,
                    [forkedCheckpointId |-> pend.fork.forkedCheckpointId,
                     forkMessage |-> pend.fork.forkMessage])
            /\ Trim(pend.fork.forkMessage) # <<>>
            /\ ~ui'.isOpen
            /\ ~ui'.showForkDialog
            /\ ui'.forkMessage = <<>>]_vars

\* The reload of a fork failed, and the parent was still called, once, with
\* the new id and the description as entered.
C20_Witness ==
    /\ h.event = "loadEnds"
    /\ h.load.awaiter = "fork"
    /\ h.load.outcome = "failed"
    /\ ui.error = "Failed to load checkpoints"
    /\ ~ui.isOpen
    /\ h.forked = <<[forkedCheckpointId |-> MaxCheckpoints + 1,
                     forkMessage |-> <<" ", "f">>]>>

(***************************************************************************)
(* Properties of handleRestoreCheckpoint                                   *)
(***************************************************************************)

\* The published checkpoints a restore button is enabled for.
Restorable ==
    {ui.checkpoints[j].checkpointId : j \in
        {k \in 1..Len(ui.checkpoints) :
            ~IsActive(ui.checkpoints, k, props.currentMessageIndex)}}

\* C21: handleRestoreCheckpoint(id) starts no load and no remote call and
\* leaves the published checkpoints, error and the loading flags as they
\* are; it closes the view and calls onCheckpointRestore once, with id.
C21_RestoreOnlySignals ==
    [][h'.event = "handleRestoreCheckpoint" =>
        /\ loads' = loads
        /\ \A o \in {"fork", "create", "verify", "showDiff"} : pend'[o] = pend[o]
        /\ ui.isOpen
        /\ ui' = [ui EXCEPT !.isOpen = FALSE]
        /\ Len(h'.restored) = 1
        /\ h'.restored[1] \in Restorable
        /\ h'.forked = h.forked]_vars

\* With the conversation at message 1, the checkpoint of message 0 was
\* restored while both checkpoints were published.
C21_Witness ==
    /\ h.event = "handleRestoreCheckpoint"
    /\ props.currentMessageIndex = 1
    /\ h.restored = <<2>>
    /\ ~ui.isOpen
    /\ Len(ui.checkpoints) = 2
    /\ ui.error = NULL
    /\ ~ui.isLoading

(***************************************************************************)
(* Properties of handleVerifyCheckpoint                                    *)
(***************************************************************************)

\* The published checkpoint of an id carries the verified mark.
Marked(checkpointId) ==
    \A j \in 1..Len(ui.checkpoints) :
        ui.checkpoints[j].checkpointId = checkpointId => ui.checkpoints[j].verified

\* A verification of the checkpoint returned true less than VERIFY_RESET_MS
\* ago: its timer is still pending.
InWindow(checkpointId) ==
    \E timer \in timers.verify :
        timer.checkpointId = checkpointId /\ time < timer.at

C23_DiffPair ==
    [][/\ ui'.diffLoading <=> pend'.showDiff.phase # "idle"
       /\ h'.event = "showDiff" =>
            /\ pend'.showDiff.phase = "remote"
            /\ pend'.showDiff.contextLines = 3
            /\ ~pend'.showDiff.ignoreWhitespace
            /\ \E j \in 2..Len(ui.checkpoints) :
                  /\ pend'.showDiff.fromCheckpointId = ui.checkpoints[j - 1].checkpointId
                  /\ pend'.showDiff.toCheckpointId = ui.checkpoints[j].checkpointId
            /\ ui'.diffFromCheckpoint = pend'.showDiff.fromCheckpointId
            /\ ui'.diffToCheckpoint = pend'.showDiff.toCheckpointId
       /\ h'.event = "showDiffReturns" =>
            /\ pend.showDiff.phase = "remote"
            /\ ui'.diffData =
                  [defined |-> TRUE,
                   fromCheckpointId |-> pend.showDiff.fromCheckpointId,
                   toCheckpointId |-> pend.showDiff.toCheckpointId,
                   contextLines |-> 3, ignoreWhitespace |-> FALSE]
            /\ ui'.error = ui.error
       /\ h'.event = "showDiffFails" =>
            /\ pend.showDiff.phase = "remote"
            /\ ui'.error = "Failed to load diff"
            /\ ~ui'.showDiffDialog
            /\ ui'.diffData = ui.diffData]_vars

\* The diff of checkpoints 2 and 3 is published and no request is in
\* flight.
C23_Witness ==
    /\ h.event = "showDiffReturns"
    /\ ui.diffData.defined
    /\ ui.diffData.fromCheckpointId = 2
    /\ ui.diffData.toCheckpointId = 3
    /\ ~ui.diffLoading
    /\ pend.showDiff.phase = "idle"

(***************************************************************************)
(* Properties of the failures of the handlers' remote calls                *)
(***************************************************************************)

\* The step is the catch block of the create, fork, verify or compare
\* handler.
RemoteCallFails ==
    h'.event \in {"createFails", "forkFails", "verifyFails", "showDiffFails"}

LiveValues(v, t) ==
    {v.map[id] : id \in {i \in Ids : HasSession(v, i)
                                      /\ Age(v, i, t) < SESSION_EXPIRY_MS}}

\* C25: getActiveSessions() returns exactly the values of getAllSessions()
\* whose age is below the expiry when the filter reads the clock: every
\* session returned has age < 24h, and no session of the store with age <
\* 24h is left out when localStorage can be read.
C25_ActiveIsLiveOfAll ==
    (op.name = "getActiveSessions" /\ ~ret.threw) =>
        /\ ret.active = LiveValues(getAllSessions(op.pre, op.t0, FailRead(op.fail)), op.t)
        /\ \A session \in ret.active : op.t - session.timestamp < SESSION_EXPIRY_MS
        /\ ~FailRead(op.fail) => LiveValues(RawRead(op.pre), op.t) \subseteq ret.active

\* getActiveSessions() was called on a store holding a session of age
\* exactly 24h, which getAllSessions() keeps, and a younger one: it returned
\* the younger one only.
C25_Witness ==
    /\ op.name = "getActiveSessions"
    /\ op.fail = "none"
    /\ Cardinality(ret.active) = 1
    /\ \E id \in Ids :
        LET all == getAllSessions(op.pre, op.t0, FALSE) IN
        /\ HasSession(all, id)
        /\ Age(all, id, op.t) = SESSION_EXPIRY_MS
        /\ all.map[id] \notin ret.active

\* C26 as stated: after removeSession(id) the persisted store has no entry
\* for id, and every other session that was in it is still there, unchanged.
C26_RemovesOnlyItsKey ==
    (op.name = "removeSession" /\ op.fail = "none") =>
        /\ ~HasKey(RawRead(store), op.id)
        /\ \A other \in Ids \ {op.id} :
              HasSession(RawRead(op.pre), other) =>
                  RawRead(store).map[other] = RawRead(op.pre).map[other]

\* C26 amended: removeSession(id) on a localStorage that works leaves no
\* entry for id; every other session of age at most 24h is still there,
\* unchanged; every other entry older than that is dropped as well, since
\* the object written is the one getAllSessions() returned.  When
\* localStorage fails on writing, the persisted store is left as it was.
C26_RemovesKeyAndExpired ==
    op.name = "removeSession" =>
        /\ op.fail = "none" =>
              /\ ~HasKey(RawRead(store), op.id)
              /\ \A other \in Ids \ {op.id} :
                    IF /\ HasSession(RawRead(op.pre), other)
                       /\ Age(RawRead(op.pre), other, op.t0) <= SESSION_EXPIRY_MS
                    THEN RawRead(store).map[other] = RawRead(op.pre).map[other]
                    ELSE ~HasKey(RawRead(store), other)
        /\ FailWrite(op.fail) => store = op.pre

\* removeSession(id) removed a stored session and left the other one, of
\* age exactly 24h, as it was.
C26_Witness ==
    /\ op.name = "removeSession"
    /\ op.fail = "none"
    /\ HasSession(RawRead(op.pre), op.id)
    /\ ~HasKey(RawRead(store), op.id)
    /\ \E other \in Ids \ {op.id} :
        /\ HasSession(RawRead(op.pre), other)
        /\ Age(RawRead(op.pre), other, op.t0) = SESSION_EXPIRY_MS
        /\ RawRead(store).map[other] = RawRead(op.pre).map[other]

\* getSession found the session in what getAllSessions() returned and then
\* read a clock at which its age is above the expiry.
ExpiresDuringGet ==
    LET sessions == getAllSessions(op.pre, op.t0, FailRead(op.fail)) IN
    /\ op.name = "getSession"
    /\ HasSession(sessions, op.id)
    /\ Age(sessions, op.id, op.t) > SESSION_EXPIRY_MS

\* C27 as stated: getSession(id) changes no other session of the persisted
\* store, whether live or expired, and does not write the store when the
\* session is live or missing.
C27_GetPrunesOnlyItsKey ==
    op.name = "getSession" =>
        /\ \A other \in Ids \ {op.id} :
              HasSession(RawRead(op.pre), other) =>
                  RawRead(store).map[other] = RawRead(op.pre).map[other]
        /\ ~HasSession(RawRead(op.pre), op.id) => store = op.pre
        /\ ret.one.kind = "session" => store = op.pre

\* C27 amended: getSession(id) writes the store only when the session was
\* in what getAllSessions() returned and its age is above 24h at the second
\* clock reading; it then removes the entry of id and, with it, every other
\* entry older than 24h, and leaves the other sessions unchanged.  In every
\* other case (session missing, live, or already dropped by
\* getAllSessions()) and when localStorage fails on writing, the store is
\* left as it was.
C27_GetWritesOnlyWhenExpiring ==
    op.name = "getSession" =>
        /\ ~ExpiresDuringGet => store = op.pre
        /\ FailWrite(op.fail) => store = op.pre
        /\ (ExpiresDuringGet /\ op.fail = "none") =>
              /\ ret.one = NullEntry
              /\ ~HasKey(RawRead(store), op.id)
              /\ \A other \in Ids \ {op.id} :
                    IF /\ HasSession(RawRead(op.pre), other)
                       /\ Age(RawRead(op.pre), other, op.t) <= SESSION_EXPIRY_MS
                    THEN RawRead(store).map[other] = RawRead(op.pre).map[other]
                    ELSE ~HasKey(RawRead(store), other)

\* getSession(id) removed the entry of a session that expired between its
\* two clock readings and left a younger session as it was.
C27_Witness ==
    /\ ExpiresDuringGet
    /\ op.fail = "none"
    /\ ~HasKey(RawRead(store), op.id)
    /\ \E other \in Ids \ {op.id} :
        /\ HasSession(RawRead(op.pre), other)
        /\ RawRead(store).map[other] = RawRead(op.pre).map[other]

\* The stored text is there and is not the JSON text of a mapping from ids
\* to sessions: it is not JSON, or JSON of a value that is no object, or of
\* an object with a null entry.
NotASessionMapping(blob) ==
    \/ blob.kind = "corrupt"
    \/ /\ blob.kind = "json"
       /\ \/ blob.value.kind # "object"
          \/ \E id \in Ids : blob.value.map[id].kind = "null"

\* C28: on a stored text that is no session mapping getAllSessions() returns
\* an empty mapping, getSession(id) returns null, getActiveSessions() returns
\* no session, and a saveSession of messages JSON can write, on a working
\* localStorage, leaves the store holding exactly the saved session.
C28_UnreadableIsEmpty ==
    NotASessionMapping(op.pre) =>
        /\ op.name = "getAllSessions" => ret.all = EmptyObject
        /\ op.name = "getSession" => ret.one = NullEntry
        /\ op.name = "getActiveSessions" => ret.active = {}
        /\ (op.name = "saveSession" /\ op.fail = "none" /\ ~HasCycle(op.messages)) =>
              store = JsonBlob(Object([EmptyMap EXCEPT ![op.id] =
                          StoredSession(op.id, op.projectPath,
                                        StringifyMessages(op.messages), op.t)]))

\* The places of the published sequence whose checkpoint isActive marks.
ActivePlaces ==
    {j \in 1..Len(ui.checkpoints) :
        IsActive(ui.checkpoints, j, props.currentMessageIndex)}

\* The places whose checkpoint is at or before the current message.
PlacesAtOrBefore ==
    {j \in 1..Len(ui.checkpoints) :
        ui.checkpoints[j].messageIndex <= props.currentMessageIndex}

\* C29: at most one published checkpoint is active, and when some published
\* checkpoint has messageIndex <= currentMessageIndex the active one is the
\* one with the greatest such messageIndex, the last of them in published
\* order when several have it.
C29_OneActiveGreatestBelow ==
    /\ Cardinality(ActivePlaces) <= 1
    /\ PlacesAtOrBefore # {} =>
          \E j \in PlacesAtOrBefore :
              /\ ActivePlaces = {j}
              /\ \A k \in PlacesAtOrBefore :
                    /\ ui.checkpoints[k].messageIndex <= ui.checkpoints[j].messageIndex
                    /\ ui.checkpoints[k].messageIndex = ui.checkpoints[j].messageIndex
                          => k <= j

\* Three checkpoints are published, the first two with the same
\* messageIndex at or before the current message and the third after it:
\* the second is the active one.
C29_Witness ==
    /\ Len(ui.checkpoints) = 3
    /\ ui.checkpoints[1].messageIndex = ui.checkpoints[2].messageIndex
    /\ ui.checkpoints[3].messageIndex > props.currentMessageIndex
    /\ props.currentMessageIndex > 0
    /\ ActivePlaces = {2}

\* C30 as stated: while the dialog is open and no load is running, when no
\* published checkpoint is at or before the current message (the empty
\* sequence included) the current position indicator is shown and no error
\* message is; and the indicator is not shown when a checkpoint is active.
C30_MarkerIffNoneActive ==
    (ui.isOpen /\ ~ui.isLoading) =>
        /\ PlacesAtOrBefore = {} =>
              CurrentPositionShown /\ ViewState # "error"
        /\ ActivePlaces # {} => ~CurrentPositionShown

\* C30 amended: the current position indicator is shown only as part of the
\* list of checkpoints (dialog open, no load running, no error, at least
\* one checkpoint).  While that list is shown, the indicator is there when
\* no checkpoint is at or before the current message, and beside an active
\* checkpoint exactly when that checkpoint is before the current message,
\* not at it.
C30_MarkerBesideList ==
    /\ CurrentPositionShown => ListShown
    /\ ListShown =>
          /\ PlacesAtOrBefore = {} => CurrentPositionShown
          /\ \A j \in ActivePlaces :
                CurrentPositionShown <=>
                    ui.checkpoints[j].messageIndex < props.currentMessageIndex

\* The indicator is shown beside an active checkpoint.
C30_Witness ==
    /\ CurrentPositionShown
    /\ ActivePlaces # {}
    /\ Len(ui.checkpoints) > 1

\* C31: isLoading is true in every state in which an invocation of
\* loadCheckpoints is in flight, also when another invocation that
\* overlapped it has completed.
C31_LoadingWhileInFlight == ~NoLoadInFlight => ui.isLoading

\* An invocation of loadCheckpoints ends in this step.
LoadCompletes ==
    \E l \in 1..MaxLoads : loads[l].phase # "idle" /\ loads'[l].phase = "idle"

\* C32: when every external call eventually returns or fails, every
\* invocation of loadCheckpoints ends; the step in which it ends sets
\* isLoading to false and leaves the view ready (error null) or failed (the
\* load-failure message); and isLoading is never true when no invocation is
\* in flight.
C32_LoadsTerminate ==
    /\ \A l \in 1..MaxLoads : (loads[l].phase # "idle") ~> (loads[l].phase = "idle")
    /\ [][LoadCompletes =>
              /\ ~ui'.isLoading
              /\ ui'.error \in {NULL, "Failed to load checkpoints"}]_vars
    /\ [](NoLoadInFlight => ~ui.isLoading)

\* A load whose list request and diff request have both been answered, the
\* diff request with a rejection, has ended, and no load is in flight.
C32_Witness ==
    /\ NoLoadInFlight
    /\ h.event = "loadEnds"
    /\ h.load.outcome = "ok"
    /\ Len(h.load.diffs) > 0
    /\ h.load.diffs[1].answer.state = "failed"
    /\ ~ui.isLoading

\* The texts a message holds: its string content and the texts of its items.
SourceTexts(message) ==
    {message.content.string} \cup
    {message.content.items[k].text.value : k \in 1..Len(message.content.items)}

\* The names of the tool_use items of a message that have one, in order.
ToolUseNames(message) ==
    LET used == SelectSeq(message.content.items,
                          LAMBDA item : item.type = "tool_use" /\ item.name # "")
    IN  [k \in 1..Len(used) |-> used[k].name]

\* The checkpoint is at a message of the conversation.
InConversation(checkpoint) ==
    checkpoint.messageIndex >= 0 /\ checkpoint.messageIndex < Len(props.messages)

MessageOf(checkpoint) == props.messages[checkpoint.messageIndex + 1]

\* C33 as stated: the messageContent of every published checkpoint is at
\* most 150 characters long, and its toolsUsed are the names of the tool_use
\* items of its message, in order, duplicates kept.
C33_PreviewAtMost150 ==
    \A j \in 1..Len(ui.checkpoints) :
        /\ Len(ui.checkpoints[j].messageContent) <= PREVIEW_CHARS
        /\ InConversation(ui.checkpoints[j]) =>
              ui.checkpoints[j].toolsUsed = ToolUseNames(MessageOf(ui.checkpoints[j]))

\* C33 amended: the messageContent of every published checkpoint is at most
\* 153 characters long: a text of the message of at most 150 characters
\* whole (or "No content"), or the first 150 characters of a longer text
\* followed by "...".  toolsUsed are the names of the named tool_use items
\* of an assistant message with array content, in order, duplicates kept,
\* and empty for every other message.  A checkpoint after the end of the
\* conversation has an empty messageContent and no toolsUsed.
C33_PreviewAtMost153 ==
    \A j \in 1..Len(ui.checkpoints) :
        LET checkpoint == ui.checkpoints[j]
            content    == checkpoint.messageContent
        IN  /\ Len(content) <= PREVIEW_CHARS + Len(Ellipsis)
            /\ ~InConversation(checkpoint) =>
                  content = <<>> /\ checkpoint.toolsUsed = <<>>
            /\ InConversation(checkpoint) =>
                  /\ IF Len(content) > PREVIEW_CHARS
                     THEN \E text \in SourceTexts(MessageOf(checkpoint)) :
                              /\ Len(text) > PREVIEW_CHARS
                              /\ content = SubSeq(text, 1, PREVIEW_CHARS) \o Ellipsis
                     ELSE \/ content = NoContent
                          \/ content \in SourceTexts(MessageOf(checkpoint)) \ {<<>>}
                  /\ checkpoint.toolsUsed =
                        IF /\ MessageOf(checkpoint).type = "assistant"
                           /\ MessageOf(checkpoint).content.kind = "array"
                        THEN ToolUseNames(MessageOf(checkpoint))
                        ELSE <<>>

\* A checkpoint is published whose message has a text of more than 150
\* characters and a tool_use item: its preview has 153 characters.
C33_Witness ==
    \E j \in 1..Len(ui.checkpoints) :
        /\ Len(ui.checkpoints[j].messageContent) = PREVIEW_CHARS + 3
        /\ ui.checkpoints[j].toolsUsed = <<"Read">>

\* The session of op.id was in what the tick's getAllSessions() returned.
TickFindsSession ==
    HasSession(getAllSessions(op.pre, op.t0, FailRead(op.fail)), op.id)

AloneOnWhatItRead ==
    LET call == race.last.call IN
    IF call.name = "saveSession"
    THEN saveSession(call.read, call.id, call.projectPath, call.messages,
                     call.t, call.t, FALSE, FALSE)
    ELSE IF call.name = "removeSession"
    THEN removeSession(call.read, call.id, call.t, FALSE, FALSE)
    ELSE keepAlive(call.read, call.id, call.projectPath, call.t, call.t, FALSE, FALSE)

\* C35: last write wins with no merge.  After a setItem the store is what
\* the call of the client that made it gives on the text that client read,
\* whatever other clients wrote between that read and the setItem; a failed
\* setItem leaves the store as it found it.
C35_LastWriteWins ==
    race.last.done =>
        IF race.last.failed
        THEN store = race.last.replaced
        ELSE store = AloneOnWhatItRead

\* A saveSession has overwritten, and so lost, a session that another
\* client stored between this client's read and its setItem.
C35_Witness ==
    /\ race.last.done /\ ~race.last.failed
    /\ race.last.call.name = "saveSession"
    /\ \E other \in Ids \ {race.last.call.id} :
          /\ ~HasSession(RawRead(race.last.call.read), other)
          /\ HasSession(RawRead(race.last.replaced), other)
          /\ ~HasSession(RawRead(store), other)

\* C36: one liveness rule for all read paths.  For every stored session and
\* every clock value, getSession(id) returns the session, getAllSessions()
\* contains it and getActiveSessions() contains it, each exactly when
\* now - timestamp < 24h.
C36_OneLivenessRule ==
    \A id \in Ids :
        HasSession(RawRead(store), id) =>
            LET live == Age(RawRead(store), id, now) < SESSION_EXPIRY_MS IN
            /\ getSession(store, id, now, now, FALSE, FALSE).one.kind = "session" <=> live
            /\ HasSession(getAllSessions(store, now, FALSE), id) <=> live
            /\ (\E session \in getActiveSessions(store, now, now, FALSE) :
                    session.sessionId = id) <=> live

\* C37: saveSession(id, ...) upserts only its own key.  Every other session
\* that was in the store and live (younger than 24h) when the call read the
\* clock is still there afterwards with the same projectPath, messages and
\* timestamp; and in every reachable state every session of the store is
\* kept under the key equal to its sessionId.
C37_SaveKeepsLiveOthers ==
    /\ op.name = "saveSession" =>
          \A other \in Ids \ {op.id} :
              (/\ HasSession(RawRead(op.pre), other)
               /\ Age(RawRead(op.pre), other, op.t0) < SESSION_EXPIRY_MS)
                  => RawRead(store).map[other] = RawRead(op.pre).map[other]
    /\ \A id \in Ids :
          HasSession(RawRead(store), id) => RawRead(store).map[id].sessionId = id

\* saveSession has stored its session beside a live session, which is
\* unchanged.
C37_Witness ==
    /\ op.name = "saveSession"
    /\ op.fail = "none"
    /\ RawRead(store).map[op.id] =
          StoredSession(op.id, op.projectPath, op.messages, op.t)
    /\ RawRead(store).map[op.id] # RawRead(op.pre).map[op.id]
    /\ \E other \in Ids \ {op.id} :
          /\ HasSession(RawRead(op.pre), other)
          /\ Age(RawRead(op.pre), other, op.t0) < SESSION_EXPIRY_MS
          /\ RawRead(store).map[other] = RawRead(op.pre).map[other]

\* C38: no debounced reload fires after the view has been closed or the
\* session has changed.  A step that closes the view leaves no debounce timer
\* pending; a step that changes sessionId leaves at most the timer that the
\* effect of the new session sets in that step, due 500 ms later; a timer is
\* pending only while the view is open; and the timer's callback starts its
\* load only while the view is open.
C38_NoDebouncedLoadAfterClose ==
    /\ [](timers.debounce # {} => ui.isOpen /\ Cardinality(timers.debounce) = 1)
    /\ [][/\ (ui.isOpen /\ ~ui'.isOpen) => timers'.debounce = {}
          /\ props'.sessionId # props.sessionId
                => timers'.debounce \subseteq {time + DEBOUNCE_MS}
          /\ h'.event = "debounceFires" /\ LoadsStarted # {}
                => ui.isOpen /\ ui'.isOpen]_vars

\* A close of the view has cleared a pending timer, and so has a change of
\* sessionId.
C38_Witness ==
    /\ h.event \in {"closeClearsTimer", "sessionChangeClearsTimer"}
    /\ h.event = "closeClearsTimer" => ~ui.isOpen /\ timers.debounce = {}
    /\ h.event = "sessionChangeClearsTimer" => ui.isOpen /\ props.sessionId = "other"

\* C39 as stated: each explicit open of the view triggers exactly one load,
\* on the first open and on every reopen with checkpoints still published,
\* provided no index change or push event occurs.  The open starts one load
\* in its own step, and the debounce timer starts a load only when
\* currentMessageIndex has changed since the view was opened.
C39_OneLoadPerOpen ==
    [][/\ (h'.event = "open" /\ props.sessionId # "")
            => Cardinality(LoadsStarted) = 1
       /\ (h'.event = "debounceFires" /\ LoadsStarted # {})
            => h.inBurst]_vars

====
